---- MODULE Spec2Model ----
(***************************************************************************)
(* Suspicious-login detector: the risk engine (in-memory and store-backed  *)
(* SuspiciousLoginDetector), its time and geodesy helpers and the SQLite   *)
(* store, as a state machine.                                              *)
(*                                                                         *)
(* Numbers.  A JavaScript number that need not be whole is a record        *)
(* [n, d]: the exact rational n/d in lowest terms when d > 0, Infinity     *)
(* when d = 0 and n = 1, NaN when d = 0 and n = 0.  Binary rounding of     *)
(* IEEE doubles is not modelled.  Instants are milliseconds (Date          *)
(* .getTime()); hours of day are read in UTC.                              *)
(***************************************************************************)
EXTENDS Integers, Sequences, FiniteSets, TLC

VARIABLES
    config,        \* this.config of the detector under analysis
    userProfiles,  \* in-memory engine: Map userId -> UserProfile
    db,            \* store: the three SQLite tables
    returned,      \* the analyzeLogin calls made so far and what each returned
    probe,         \* last direct application of a pure helper
    requests       \* API server: the check requests in flight, one per client

vars == <<config, userProfiles, db, returned, probe, requests>>

(***************************************************************************)
(* Bounds of the exploration.                                              *)
(***************************************************************************)
MaxAttempts == 2   \* calls of analyzeLogin when two users log in
MaxHistory == 3    \* calls of analyzeLogin when one user logs in
MaxBurst == 10     \* failed attempts in a run of consecutive failures
MaxLogins == 11    \* calls of analyzeLogin when one user logs in day after day
MaxPrior == 1      \* check requests served one at a time before two overlap
MaxBatch == 2      \* attempts in one call of analyzeMultiple

(***************************************************************************)
(* JavaScript numbers.                                                     *)
(***************************************************************************)
RECURSIVE GCD(_, _)
GCD(a, b) == IF b = 0 THEN a ELSE GCD(b, a % b)

Abs(x) == IF x < 0 THEN -x ELSE x

Norm(n, d) ==
    LET g == GCD(Abs(n), d)
    IN  IF n = 0 THEN [n |-> 0, d |-> 1] ELSE [n |-> n \div g, d |-> d \div g]

Num(i) == [n |-> i, d |-> 1]
Infinity == [n |-> 1, d |-> 0]
NaN == [n |-> 0, d |-> 0]
IsNaN(x) == x.d = 0 /\ x.n = 0
IsInf(x) == x.d = 0 /\ x.n = 1
IsWhole(x) == x.d = 1

\* a > b and a >= b as JavaScript evaluates them (false on NaN).
Gt(a, b) ==
    IF IsNaN(a) \/ IsNaN(b) THEN FALSE
    ELSE IF IsInf(a) THEN ~IsInf(b)
    ELSE IF IsInf(b) THEN FALSE
    ELSE a.n * b.d > b.n * a.d

Ge(a, b) ==
    IF IsNaN(a) \/ IsNaN(b) THEN FALSE
    ELSE IF IsInf(a) THEN TRUE
    ELSE IF IsInf(b) THEN FALSE
    ELSE a.n * b.d >= b.n * a.d

\* a + b, a - b, a * b, a / b for the operands the engine forms: b is finite,
\* and positive where it divides or multiplies.
Add(a, b) ==
    IF IsNaN(a) \/ IsNaN(b) THEN NaN
    ELSE IF IsInf(a) THEN Infinity
    ELSE Norm(a.n * b.d + b.n * a.d, a.d * b.d)

Sub(a, b) ==
    IF IsNaN(a) \/ IsNaN(b) THEN NaN
    ELSE IF IsInf(a) THEN Infinity
    ELSE Norm(a.n * b.d - b.n * a.d, a.d * b.d)

Mul(a, b) ==
    IF IsNaN(a) \/ IsNaN(b) THEN NaN
    ELSE IF IsInf(a) THEN Infinity
    ELSE Norm(a.n * b.n, a.d * b.d)

Div(a, b) ==
    IF IsNaN(a) \/ IsNaN(b) THEN NaN
    ELSE IF IsInf(a) THEN Infinity
    ELSE Norm(a.n * b.d, a.d * b.n)

\* Math.min(a, b)
MathMin(a, b) ==
    IF IsNaN(a) \/ IsNaN(b) THEN NaN ELSE IF Gt(a, b) THEN b ELSE a

\* Math.round(x) of a finite x: the nearest integer, halves towards +Infinity.
MathRound(x) == (2 * x.n + x.d) \div (2 * x.d)

(***************************************************************************)
(* Configuration (utils/config.ts) and the constructor's merge.            *)
(***************************************************************************)
defaultConfig ==
    [ maxTravelSpeed          |-> 900,
      bruteForceWindow        |-> 30,
      bruteForceThreshold     |-> 5,
      locationChangeThreshold |-> 100,
      riskThresholds          |-> [low |-> 30, medium |-> 50, high |-> 70, critical |-> 85] ]

\* No argument to the constructor.
NoConfig == [k \in {} |-> 0]

\* The Partial<DetectorConfig> of the integration test's "Custom Configuration".
customConfig ==
    [ maxTravelSpeed      |-> 1000,
      bruteForceThreshold |-> 3,
      riskThresholds      |-> [low |-> 25, medium |-> 45, high |-> 65, critical |-> 85] ]

\* { ...defaultConfig, ...config }: a key of config replaces the default whole.
MergeConfig(custom) ==
    [k \in DOMAIN defaultConfig |->
        IF k \in DOMAIN custom THEN custom[k] ELSE defaultConfig[k]]

ConstructorArgs == {NoConfig, customConfig}

\* createConfig: riskThresholds is merged entry by entry.
createConfig(custom) ==
    [k \in DOMAIN defaultConfig |->
        IF k = "riskThresholds"
        THEN [t \in DOMAIN defaultConfig.riskThresholds |->
                 IF k \in DOMAIN custom /\ t \in DOMAIN custom[k]
                 THEN custom[k][t] ELSE defaultConfig.riskThresholds[t]]
        ELSE IF k \in DOMAIN custom THEN custom[k] ELSE defaultConfig[k]]

\* More arguments a caller can construct a detector with: one setting
\* alone, thresholds out of order, a single threshold.
PartialConfigs ==
    ConstructorArgs \cup
    { [maxTravelSpeed |-> 1000],
      [bruteForceThreshold |-> 3],
      [riskThresholds |-> [low |-> 30, medium |-> 80, high |-> 50, critical |-> 60]],
      [riskThresholds |-> [high |-> 60]] }

(***************************************************************************)
(* Geolocation (utils/geoLocation.ts).  geoip-lite's database is external: *)
(* the model fixes what it answers for four addresses.  Coordinates are in *)
(* 1/10000 degree.                                                         *)
(***************************************************************************)
NewYork == [country |-> "US", region |-> "NY", city |-> "New York",
            latitude |-> 407128, longitude |-> -740060]
Tokyo   == [country |-> "JP", region |-> "13", city |-> "Tokyo",
            latitude |-> 356762, longitude |-> 1396503]
London  == [country |-> "GB", region |-> "ENG", city |-> "London",
            latitude |-> 515074, longitude |-> -1278]

IpNewYork == "8.8.8.8"
IpTokyo   == "133.130.96.1"
IpLondon  == "81.2.69.142"
IpPrivate == "192.168.1.1"

\* GeoLocation | null as a sequence of at most one location.
getLocationFromIP(ipAddress) ==
    CASE ipAddress = IpNewYork -> <<NewYork>>
      [] ipAddress = IpTokyo   -> <<Tokyo>>
      [] ipAddress = IpLondon  -> <<London>>
      [] OTHER                 -> <<>>

\* The Haversine distance in km (R = 6371), to the nearest km, for the model's
\* coordinates: New York-Tokyo 10851.73, New York-London 5570.22,
\* Tokyo-London 9558.56.
calculateDistance(lat1, lon1, lat2, lon2) ==
    LET a == <<lat1, lon1>>
        b == <<lat2, lon2>>
        ny == <<NewYork.latitude, NewYork.longitude>>
        tk == <<Tokyo.latitude, Tokyo.longitude>>
        ld == <<London.latitude, London.longitude>>
    IN  CASE a = b               -> Num(0)
          [] {a, b} = {ny, tk}   -> Num(10852)
          [] {a, b} = {ny, ld}   -> Num(5570)
          [] {a, b} = {tk, ld}   -> Num(9559)

calculateTravelSpeed(location1, location2, timeInHours) ==
    IF ~IsNaN(timeInHours) /\ timeInHours = Num(0) THEN Infinity
    ELSE Div(calculateDistance(location1.latitude, location1.longitude,
                               location2.latitude, location2.longitude),
             timeInHours)

(***************************************************************************)
(* Time analysis (utils/timeAnalysis.ts).  A timestamp is a Date           *)
(* (tsKind = "Date") or, after JSON.parse, an ISO string (tsKind =         *)
(* "string"); date-fns 2.x turns a string argument into an Invalid Date.   *)
(***************************************************************************)
\* differenceInHours / differenceInMinutes truncate towards zero.
getTimeDifferenceInHours(kind1, date1, kind2, date2) ==
    IF kind1 # "Date" \/ kind2 # "Date" THEN NaN
    ELSE Num(Abs(date1 - date2) \div 3600000)

getTimeDifferenceInMinutes(kind1, date1, kind2, date2) ==
    IF kind1 # "Date" \/ kind2 # "Date" THEN NaN
    ELSE Num(Abs(date1 - date2) \div 60000)

getHourOfDay(date) == (date \div 3600000) % 24

getFailedAttemptsInWindow(attempts, currentTime, windowMinutes) ==
    SelectSeq(attempts, LAMBDA attempt :
        /\ ~attempt.success
        /\ Ge(Num(windowMinutes),
              getTimeDifferenceInMinutes(attempt.tsKind, attempt.timestamp,
                                         "Date", currentTime)))

HourCount(loginHistory, hour) ==
    Cardinality({i \in 1..Len(loginHistory) :
                    getHourOfDay(loginHistory[i].timestamp) = hour})

\* The hours 0..23 in ascending order.
HourSeq == [i \in 1..24 |-> i - 1]

\* Mutant: every hour seen at least once is typical.
calculateTypicalLoginHours_AllSeen(loginHistory) ==
    SelectSeq(HourSeq, LAMBDA hour : HourCount(loginHistory, hour) > 0)

\* Mutant: no fallback when no hour reaches the threshold.
calculateTypicalLoginHours_NoFallback(loginHistory) ==
    LET totalLogins == Len(loginHistory)
    IN  SelectSeq(HourSeq, LAMBDA hour :
            /\ HourCount(loginHistory, hour) > 0
            /\ 10 * HourCount(loginHistory, hour) >= totalLogins)

\* Mutant: an hour is typical with more than 10% of the logins.
calculateTypicalLoginHours_MoreThanTenth(loginHistory) ==
    LET totalLogins == Len(loginHistory)
        typicalHours == SelectSeq(HourSeq, LAMBDA hour :
            /\ HourCount(loginHistory, hour) > 0
            /\ 10 * HourCount(loginHistory, hour) > totalLogins)
    IN  IF Len(typicalHours) = 0
        THEN SelectSeq(HourSeq, LAMBDA hour : HourCount(loginHistory, hour) > 0)
        ELSE typicalHours

calculateTypicalLoginHours(loginHistory) ==
    LET totalLogins == Len(loginHistory)
        \* hourCounts[hour] >= totalLogins * 0.1 (undefined >= x is false)
        typicalHours == SelectSeq(HourSeq, LAMBDA hour :
            /\ HourCount(loginHistory, hour) > 0
            /\ 10 * HourCount(loginHistory, hour) >= totalLogins)
    IN  IF Len(typicalHours) = 0
        THEN SelectSeq(HourSeq, LAMBDA hour : HourCount(loginHistory, hour) > 0)
        ELSE typicalHours

isUnusualLoginTime(loginTime, typicalHours) ==
    IF Len(typicalHours) = 0 THEN FALSE
    ELSE \A i \in 1..Len(typicalHours) : typicalHours[i] # getHourOfDay(loginTime)

(***************************************************************************)
(* The risk-factor calculators, aggregation, classification and            *)
(* recommendations (core detector; the in-memory and the store-backed      *)
(* class hold the same code).  A calculator that mutates the profile       *)
(* returns [value, profile].                                               *)
(***************************************************************************)
SameCity(loc1, loc2) == loc1.country = loc2.country /\ loc1.city = loc2.city

\* Mutant: a new location is scored but never recorded as typical.
calculateLocationChangeRisk_NotRecorded(attempt, profile) ==
    LET currentLocation == getLocationFromIP(attempt.ipAddress)
    IN  IF currentLocation = <<>>
        THEN [value |-> 0, profile |-> profile]
        ELSE IF \E i \in 1..Len(profile.typicalLocations) :
                    SameCity(profile.typicalLocations[i], currentLocation[1])
        THEN [value |-> 0, profile |-> profile]
        ELSE [value |-> 40, profile |-> profile]

\* Mutant: a resolved location is recorded whether or not it is typical.
calculateLocationChangeRisk_AlwaysRecorded(attempt, profile) ==
    LET currentLocation == getLocationFromIP(attempt.ipAddress)
        recorded == [profile EXCEPT !.typicalLocations = Append(@, currentLocation[1])]
    IN  IF currentLocation = <<>>
        THEN [value |-> 0, profile |-> profile]
        ELSE IF \E i \in 1..Len(profile.typicalLocations) :
                    SameCity(profile.typicalLocations[i], currentLocation[1])
        THEN [value |-> 0, profile |-> recorded]
        ELSE [value |-> 40, profile |-> recorded]

\* Mutant: an address without a location counts as a new location.
calculateLocationChangeRisk_UnknownIsNew(attempt, profile) ==
    LET currentLocation == getLocationFromIP(attempt.ipAddress)
    IN  IF currentLocation = <<>>
        THEN [value |-> 40,
              profile |-> [profile EXCEPT !.typicalLocations =
                              Append(@, [country |-> "", region |-> "",
                                         city |-> "Unknown",
                                         latitude |-> 0, longitude |-> 0])]]
        ELSE IF \E i \in 1..Len(profile.typicalLocations) :
                    SameCity(profile.typicalLocations[i], currentLocation[1])
        THEN [value |-> 0, profile |-> profile]
        ELSE [value |-> 40,
              profile |-> [profile EXCEPT !.typicalLocations =
                              Append(@, currentLocation[1])]]

\* Mutant: a new location contributes locationChangeThreshold.
calculateLocationChangeRisk_ThresholdValue(attempt, profile) ==
    LET currentLocation == getLocationFromIP(attempt.ipAddress)
    IN  IF currentLocation = <<>>
        THEN [value |-> 0, profile |-> profile]
        ELSE IF Len(profile.loginHistory) = 0
        THEN [value |-> 0,
              profile |-> [profile EXCEPT !.typicalLocations =
                              Append(@, currentLocation[1])]]
        ELSE IF \E i \in 1..Len(profile.typicalLocations) :
                    SameCity(profile.typicalLocations[i], currentLocation[1])
        THEN [value |-> 0, profile |-> profile]
        ELSE [value |-> defaultConfig.locationChangeThreshold,
              profile |-> [profile EXCEPT !.typicalLocations =
                              Append(@, currentLocation[1])]]

\* Mutant: only a successful attempt makes its location typical.
calculateLocationChangeRisk_SuccessOnly(attempt, profile) ==
    LET currentLocation == getLocationFromIP(attempt.ipAddress)
    IN  IF currentLocation = <<>>
        THEN [value |-> 0, profile |-> profile]
        ELSE IF Len(profile.loginHistory) = 0
        THEN [value |-> 0,
              profile |-> [profile EXCEPT !.typicalLocations =
                              Append(@, currentLocation[1])]]
        ELSE IF \E i \in 1..Len(profile.typicalLocations) :
                    SameCity(profile.typicalLocations[i], currentLocation[1])
        THEN [value |-> 0, profile |-> profile]
        ELSE [value |-> 40,
              profile |-> IF attempt.success
                          THEN [profile EXCEPT !.typicalLocations =
                                   Append(@, currentLocation[1])]
                          ELSE profile]

calculateLocationChangeRisk(attempt, profile) ==
    LET currentLocation == getLocationFromIP(attempt.ipAddress)
    IN  IF currentLocation = <<>>
        THEN [value |-> 0, profile |-> profile]
        ELSE IF Len(profile.loginHistory) = 0
        THEN [value |-> 0,
              profile |-> [profile EXCEPT !.typicalLocations =
                              Append(@, currentLocation[1])]]
        ELSE IF \E i \in 1..Len(profile.typicalLocations) :
                    SameCity(profile.typicalLocations[i], currentLocation[1])
        THEN [value |-> 0, profile |-> profile]
        ELSE [value |-> 40,
              profile |-> [profile EXCEPT !.typicalLocations =
                              Append(@, currentLocation[1])]]

\* Mutant: a speed at or below maxTravelSpeed contributes nothing.
calculateImpossibleTravelRisk_NoFastBand(attempt, profile, cfg) ==
    IF profile.lastSuccessfulLogin = <<>> THEN Num(0)
    ELSE
    LET last == profile.lastSuccessfulLogin[1]
        currentLocation == getLocationFromIP(attempt.ipAddress)
        previousLocation == getLocationFromIP(last.ipAddress)
    IN  IF currentLocation = <<>> \/ previousLocation = <<>> THEN Num(0)
        ELSE IF SameCity(currentLocation[1], previousLocation[1]) THEN Num(0)
        ELSE
        LET timeDiff == getTimeDifferenceInHours(last.tsKind, last.timestamp,
                                                 attempt.tsKind, attempt.timestamp)
            requiredSpeed == calculateTravelSpeed(previousLocation[1],
                                                  currentLocation[1], timeDiff)
            speedRatio == Div(requiredSpeed, Num(cfg.maxTravelSpeed))
        IN  IF Gt(requiredSpeed, Num(cfg.maxTravelSpeed))
            THEN MathMin(Num(100), Add(Num(60), Mul(Sub(speedRatio, Num(1)), Num(40))))
            ELSE Num(0)

calculateImpossibleTravelRisk(attempt, profile, cfg) ==
    IF profile.lastSuccessfulLogin = <<>> THEN Num(0)
    ELSE
    LET last == profile.lastSuccessfulLogin[1]
        currentLocation == getLocationFromIP(attempt.ipAddress)
        previousLocation == getLocationFromIP(last.ipAddress)
    IN  IF currentLocation = <<>> \/ previousLocation = <<>> THEN Num(0)
        ELSE IF SameCity(currentLocation[1], previousLocation[1]) THEN Num(0)
        ELSE
        LET timeDiff == getTimeDifferenceInHours(last.tsKind, last.timestamp,
                                                 attempt.tsKind, attempt.timestamp)
            requiredSpeed == calculateTravelSpeed(previousLocation[1],
                                                  currentLocation[1], timeDiff)
            speedRatio == Div(requiredSpeed, Num(cfg.maxTravelSpeed))
        IN  IF Gt(requiredSpeed, Num(cfg.maxTravelSpeed))
            THEN MathMin(Num(100), Add(Num(60), Mul(Sub(speedRatio, Num(1)), Num(40))))
            ELSE IF Gt(requiredSpeed, Norm(cfg.maxTravelSpeed * 7, 10))
            THEN Num(30)
            ELSE Num(0)

\* Mutant: the window filter also drops the entry of the current attempt.
FailureCount_WithoutCurrent(attempt, profile, cfg) ==
    Len(SelectSeq(
            getFailedAttemptsInWindow(profile.failedAttempts, attempt.timestamp,
                                      cfg.bruteForceWindow),
            LAMBDA a : a # attempt))

\* recentFailures.length of calculateBruteForceRisk
FailureCount(attempt, profile, cfg) ==
    Len(getFailedAttemptsInWindow(profile.failedAttempts, attempt.timestamp,
                                  cfg.bruteForceWindow))

\* Mutant: the threshold is compared with > instead of >=.
calculateBruteForceRisk_Strict(attempt, profile, cfg) ==
    LET failureCount == Len(getFailedAttemptsInWindow(profile.failedAttempts,
                                                      attempt.timestamp,
                                                      cfg.bruteForceWindow))
        ratio == Norm(failureCount, cfg.bruteForceThreshold)
    IN  IF failureCount > cfg.bruteForceThreshold
        THEN MathMin(Num(100), Add(Num(70), Mul(Sub(ratio, Num(1)), Num(30))))
        ELSE IF 10 * failureCount >= 7 * cfg.bruteForceThreshold
        THEN Num(40)
        ELSE Num(0)

\* Mutant: the scaled value is not capped at 100.
calculateBruteForceRisk_Uncapped(attempt, profile, cfg) ==
    LET failureCount == Len(getFailedAttemptsInWindow(profile.failedAttempts,
                                                      attempt.timestamp,
                                                      cfg.bruteForceWindow))
        ratio == Norm(failureCount, cfg.bruteForceThreshold)
    IN  IF failureCount >= cfg.bruteForceThreshold
        THEN Add(Num(70), Mul(Sub(ratio, Num(1)), Num(30)))
        ELSE IF 10 * failureCount >= 7 * cfg.bruteForceThreshold
        THEN Num(40)
        ELSE Num(0)

calculateBruteForceRisk(attempt, profile, cfg) ==
    LET failureCount == FailureCount(attempt, profile, cfg)
        ratio == Norm(failureCount, cfg.bruteForceThreshold)
    IN  IF failureCount >= cfg.bruteForceThreshold
        THEN MathMin(Num(100), Add(Num(70), Mul(Sub(ratio, Num(1)), Num(30))))
        ELSE IF 10 * failureCount >= 7 * cfg.bruteForceThreshold
        THEN Num(40)
        ELSE Num(0)

\* Mutant: the pattern is judged from the first successful login on.
calculateUnusualTimeRisk_NoMinimum(attempt, profile) ==
    LET successfulLogins == SelectSeq(profile.loginHistory, LAMBDA l : l.success)
        typicalHours == calculateTypicalLoginHours(successfulLogins)
    IN  IF Len(successfulLogins) < 1
        THEN [value |-> 0, profile |-> profile]
        ELSE [value |-> IF isUnusualLoginTime(attempt.timestamp, typicalHours)
                        THEN 35 ELSE 0,
              profile |-> [profile EXCEPT !.typicalLoginHours = typicalHours]]

calculateUnusualTimeRisk(attempt, profile) ==
    LET successfulLogins == SelectSeq(profile.loginHistory, LAMBDA l : l.success)
        typicalHours == calculateTypicalLoginHours(successfulLogins)
    IN  IF Len(successfulLogins) < 10
        THEN [value |-> 0, profile |-> profile]
        ELSE [value |-> IF isUnusualLoginTime(attempt.timestamp, typicalHours)
                        THEN 35 ELSE 0,
              profile |-> [profile EXCEPT !.typicalLoginHours = typicalHours]]

\* The four calculators in the order calculateRiskFactors calls them.
calculateRiskFactors(attempt, profile, cfg) ==
    LET lc == calculateLocationChangeRisk(attempt, profile)
        it == calculateImpossibleTravelRisk(attempt, lc.profile, cfg)
        bf == calculateBruteForceRisk(attempt, lc.profile, cfg)
        ut == calculateUnusualTimeRisk(attempt, lc.profile)
    IN  [factors |-> [locationChange   |-> Num(lc.value),
                      impossibleTravel |-> it,
                      bruteForce       |-> bf,
                      unusualTime      |-> Num(ut.value)],
         profile |-> ut.profile]

\* Mutant: the factors are added without their weights.
calculateOverallRisk_Unweighted(factors) ==
    MathRound(Add(Add(Add(factors.locationChange, factors.impossibleTravel),
                      factors.bruteForce),
                  factors.unusualTime))

\* Mutant: Math.floor in place of Math.round.
calculateOverallRisk_Floor(factors) ==
    LET score == Add(Add(Add(Mul(factors.locationChange, Norm(2, 10)),
                             Mul(factors.impossibleTravel, Norm(4, 10))),
                         Mul(factors.bruteForce, Norm(3, 10))),
                     Mul(factors.unusualTime, Norm(1, 10)))
    IN  score.n \div score.d

\* 0.2, 0.4, 0.3, 0.1 as tenths.
calculateOverallRisk(factors) ==
    LET score == Add(Add(Add(Mul(factors.locationChange, Norm(2, 10)),
                             Mul(factors.impossibleTravel, Norm(4, 10))),
                         Mul(factors.bruteForce, Norm(3, 10))),
                     Mul(factors.unusualTime, Norm(1, 10)))
    IN  MathRound(score)

\* Mutant: the thresholds are read from the lowest up.
determineRiskLevel_LowestFirst(score, thresholds) ==
    IF score < thresholds.medium THEN "low"
    ELSE IF score < thresholds.high THEN "medium"
    ELSE IF score < thresholds.critical THEN "high"
    ELSE "critical"

\* score >= thresholds[name]; a missing entry is undefined and the
\* comparison false.
AtLeast(score, thresholds, name) ==
    name \in DOMAIN thresholds /\ score >= thresholds[name]

determineRiskLevel(score, thresholds) ==
    IF AtLeast(score, thresholds, "critical") THEN "critical"
    ELSE IF AtLeast(score, thresholds, "high") THEN "high"
    ELSE IF AtLeast(score, thresholds, "medium") THEN "medium"
    ELSE "low"

Block       == "Block login attempt and require additional verification"
TravelAlert == "Send alert for impossible travel detection"
RequireMfa  == "Require multi-factor authentication"
Lockout     == "Implement temporary account lockout"
BruteAlert  == "Alert user of potential brute force attack"
NewLocation == "Send notification to user about new location login"
TimeVerify  == "Consider requiring additional verification for unusual login times"
Monitor     == "Monitor this user for additional suspicious activity"
Legitimate  == "Login appears legitimate - allow access"

\* Mutant: the closing recommendation is appended whatever fired.
generateRecommendations_LegitimateAppended(factors, riskLevel) ==
       (IF riskLevel = "critical" \/ riskLevel = "high" THEN <<Block>> ELSE <<>>)
    \o (IF Gt(factors.impossibleTravel, Num(50))
        THEN <<TravelAlert, RequireMfa>> ELSE <<>>)
    \o (IF Gt(factors.bruteForce, Num(50)) THEN <<Lockout, BruteAlert>> ELSE <<>>)
    \o (IF Gt(factors.locationChange, Num(30)) THEN <<NewLocation>> ELSE <<>>)
    \o (IF Gt(factors.unusualTime, Num(30)) THEN <<TimeVerify>> ELSE <<>>)
    \o (IF riskLevel = "medium" THEN <<Monitor>> ELSE <<>>)
    \o <<Legitimate>>

\* Mutant: the rule for the medium level is evaluated before the factor rules.
generateRecommendations_MonitorFirst(factors, riskLevel) ==
    LET recommendations ==
               (IF riskLevel = "critical" \/ riskLevel = "high" THEN <<Block>> ELSE <<>>)
            \o (IF riskLevel = "medium" THEN <<Monitor>> ELSE <<>>)
            \o (IF Gt(factors.impossibleTravel, Num(50))
                THEN <<TravelAlert, RequireMfa>> ELSE <<>>)
            \o (IF Gt(factors.bruteForce, Num(50)) THEN <<Lockout, BruteAlert>> ELSE <<>>)
            \o (IF Gt(factors.locationChange, Num(30)) THEN <<NewLocation>> ELSE <<>>)
            \o (IF Gt(factors.unusualTime, Num(30)) THEN <<TimeVerify>> ELSE <<>>)
    IN  IF Len(recommendations) = 0 THEN <<Legitimate>> ELSE recommendations

generateRecommendations(factors, riskLevel) ==
    LET recommendations ==
               (IF riskLevel = "critical" \/ riskLevel = "high" THEN <<Block>> ELSE <<>>)
            \o (IF Gt(factors.impossibleTravel, Num(50))
                THEN <<TravelAlert, RequireMfa>> ELSE <<>>)
            \o (IF Gt(factors.bruteForce, Num(50)) THEN <<Lockout, BruteAlert>> ELSE <<>>)
            \o (IF Gt(factors.locationChange, Num(30)) THEN <<NewLocation>> ELSE <<>>)
            \o (IF Gt(factors.unusualTime, Num(30)) THEN <<TimeVerify>> ELSE <<>>)
            \o (IF riskLevel = "medium" THEN <<Monitor>> ELSE <<>>)
    IN  IF Len(recommendations) = 0 THEN <<Legitimate>> ELSE recommendations

\* Each detail string as the tuple of its template's name and its values.
generateDetails(attempt, profile, factors, cfg) ==
    LET currentLocation == getLocationFromIP(attempt.ipAddress)
        prevLocation == IF profile.lastSuccessfulLogin = <<>> THEN <<>>
                        ELSE getLocationFromIP(profile.lastSuccessfulLogin[1].ipAddress)
    IN     (IF currentLocation # <<>>
            THEN << <<"Login from", currentLocation[1].city, currentLocation[1].country>> >>
            ELSE <<>>)
        \o (IF Gt(factors.locationChange, Num(0))
            THEN << <<"New location detected", factors.locationChange>> >> ELSE <<>>)
        \o (IF Gt(factors.impossibleTravel, Num(0))
            THEN << <<"Impossible travel detected", factors.impossibleTravel>> >>
                 \o (IF prevLocation # <<>>
                     THEN << <<"Previous login from", prevLocation[1].city,
                               prevLocation[1].country>> >>
                     ELSE <<>>)
            ELSE <<>>)
        \o (IF Gt(factors.bruteForce, Num(0))
            THEN << <<"failed login attempts", FailureCount(attempt, profile, cfg),
                      cfg.bruteForceWindow, factors.bruteForce>> >>
            ELSE <<>>)
        \o (IF Gt(factors.unusualTime, Num(0))
            THEN << <<"Login at unusual time", factors.unusualTime>> >> ELSE <<>>)

\* Mutant: every attempt is pushed onto failedAttempts.
Analyze_FailedAlways(attempt, profile0, cfg) ==
    LET pushed == [profile0 EXCEPT
                     !.loginHistory = Append(@, attempt),
                     !.failedAttempts = Append(@, attempt),
                     !.lastSuccessfulLogin = IF attempt.success THEN <<attempt>> ELSE @]
        rf == calculateRiskFactors(attempt, pushed, cfg)
        overallRisk == calculateOverallRisk(rf.factors)
        riskLevel == determineRiskLevel(overallRisk, cfg.riskThresholds)
    IN  [assessment |->
            [userId          |-> attempt.userId,
             timestamp       |-> attempt.timestamp,
             overallRisk     |-> overallRisk,
             riskLevel       |-> riskLevel,
             factors         |-> rf.factors,
             recommendations |-> generateRecommendations(rf.factors, riskLevel),
             details         |-> generateDetails(attempt, rf.profile, rf.factors, cfg)],
         profile |-> rf.profile,
         failureCount |-> FailureCount(attempt, pushed, cfg)]

\* Mutant: every attempt becomes lastSuccessfulLogin.
Analyze_LastAlways(attempt, profile0, cfg) ==
    LET pushed == [profile0 EXCEPT
                     !.loginHistory = Append(@, attempt),
                     !.failedAttempts = IF attempt.success THEN @ ELSE Append(@, attempt),
                     !.lastSuccessfulLogin = <<attempt>>]
        rf == calculateRiskFactors(attempt, pushed, cfg)
        overallRisk == calculateOverallRisk(rf.factors)
        riskLevel == determineRiskLevel(overallRisk, cfg.riskThresholds)
    IN  [assessment |->
            [userId          |-> attempt.userId,
             timestamp       |-> attempt.timestamp,
             overallRisk     |-> overallRisk,
             riskLevel       |-> riskLevel,
             factors         |-> rf.factors,
             recommendations |-> generateRecommendations(rf.factors, riskLevel),
             details         |-> generateDetails(attempt, rf.profile, rf.factors, cfg)],
         profile |-> rf.profile,
         failureCount |-> FailureCount(attempt, pushed, cfg)]

\* Mutant: lastSuccessfulLogin is set after the factors are calculated.
Analyze_LastAfterScoring(attempt, profile0, cfg) ==
    LET pushed == [profile0 EXCEPT
                     !.loginHistory = Append(@, attempt),
                     !.failedAttempts = IF attempt.success THEN @ ELSE Append(@, attempt)]
        rf == calculateRiskFactors(attempt, pushed, cfg)
        overallRisk == calculateOverallRisk(rf.factors)
        riskLevel == determineRiskLevel(overallRisk, cfg.riskThresholds)
    IN  [assessment |->
            [userId          |-> attempt.userId,
             timestamp       |-> attempt.timestamp,
             overallRisk     |-> overallRisk,
             riskLevel       |-> riskLevel,
             factors         |-> rf.factors,
             recommendations |-> generateRecommendations(rf.factors, riskLevel),
             details         |-> generateDetails(attempt, rf.profile, rf.factors, cfg)],
         profile |-> [rf.profile EXCEPT
                         !.lastSuccessfulLogin = IF attempt.success THEN <<attempt>> ELSE @],
         failureCount |-> FailureCount(attempt, pushed, cfg)]

\* analyzeLogin from the profile update to the assessment: what both engines
\* do to the profile they hold.  Returns [assessment, profile, failureCount].
Analyze(attempt, profile0, cfg) ==
    LET pushed == [profile0 EXCEPT
                     !.loginHistory = Append(@, attempt),
                     !.failedAttempts = IF attempt.success THEN @ ELSE Append(@, attempt),
                     !.lastSuccessfulLogin = IF attempt.success THEN <<attempt>> ELSE @]
        rf == calculateRiskFactors(attempt, pushed, cfg)
        overallRisk == calculateOverallRisk(rf.factors)
        riskLevel == determineRiskLevel(overallRisk, cfg.riskThresholds)
    IN  [assessment |->
            [userId          |-> attempt.userId,
             timestamp       |-> attempt.timestamp,
             overallRisk     |-> overallRisk,
             riskLevel       |-> riskLevel,
             factors         |-> rf.factors,
             recommendations |-> generateRecommendations(rf.factors, riskLevel),
             details         |-> generateDetails(attempt, rf.profile, rf.factors, cfg)],
         profile |-> rf.profile,
         failureCount |-> FailureCount(attempt, pushed, cfg)]

EmptyProfile(userId) ==
    [userId              |-> userId,
     loginHistory        |-> <<>>,
     typicalLocations    |-> <<>>,
     typicalLoginHours   |-> <<>>,
     lastSuccessfulLogin |-> <<>>,
     failedAttempts      |-> <<>>]

\* In-memory engine: get or create the profile.
getUserProfile(userId) ==
    IF userId \in DOMAIN userProfiles THEN userProfiles[userId] ELSE EmptyProfile(userId)

(***************************************************************************)
(* The store (database/database.ts).  A DATETIME column holds the ISO text *)
(* of an instant, modelled by its milliseconds (toISOString and new Date   *)
(* are inverse on them, and ISO texts order as their instants do).         *)
(***************************************************************************)
\* JSON.parse(JSON.stringify(attempt)): the Date comes back as a string.
JsonRoundTrip(attempt) == [attempt EXCEPT !.tsKind = "string"]

saveLoginAttempt(d, attempt) ==
    [d EXCEPT !.login_attempts = Append(@,
        [user_id    |-> attempt.userId,
         timestamp  |-> attempt.timestamp,
         ip_address |-> attempt.ipAddress,
         success    |-> IF attempt.success THEN 1 ELSE 0])]

\* rows with row inserted after every row whose timestamp is not smaller.
InsertDesc(rows, row) ==
    LET k == Cardinality({i \in 1..Len(rows) : rows[i].timestamp >= row.timestamp})
    IN  SubSeq(rows, 1, k) \o <<row>> \o SubSeq(rows, k + 1, Len(rows))

\* ORDER BY timestamp DESC; rows of equal timestamp stay in insertion order.
RECURSIVE OrderByTimestampDesc(_)
OrderByTimestampDesc(rows) ==
    IF rows = <<>> THEN <<>>
    ELSE InsertDesc(OrderByTimestampDesc(SubSeq(rows, 1, Len(rows) - 1)),
                    rows[Len(rows)])

RowsToAttempts(rows, failedOnly) ==
    [i \in 1..Len(rows) |->
        [userId    |-> rows[i].user_id,
         timestamp |-> rows[i].timestamp,
         tsKind    |-> "Date",
         ipAddress |-> rows[i].ip_address,
         success   |-> IF failedOnly THEN FALSE ELSE rows[i].success # 0]]

getUserLoginHistory(d, userId) ==
    RowsToAttempts(
        OrderByTimestampDesc(SelectSeq(d.login_attempts,
                                       LAMBDA row : row.user_id = userId)),
        FALSE)

\* Mutant: the failed attempts of every user.
getUserFailedAttempts_AllUsers(d, userId) ==
    RowsToAttempts(
        OrderByTimestampDesc(SelectSeq(d.login_attempts, LAMBDA row : row.success = 0)),
        TRUE)

getUserFailedAttempts(d, userId) ==
    RowsToAttempts(
        OrderByTimestampDesc(SelectSeq(d.login_attempts,
                                       LAMBDA row : row.user_id = userId /\ row.success = 0)),
        TRUE)

\* UserProfile | null as a sequence of at most one profile.
DbGetUserProfile(d, userId) ==
    IF userId \notin DOMAIN d.user_profiles THEN <<>>
    ELSE LET row == d.user_profiles[userId]
         IN  << [userId              |-> userId,
                 loginHistory        |-> getUserLoginHistory(d, userId),
                 typicalLocations    |-> row.typical_locations,
                 typicalLoginHours   |-> row.typical_login_hours,
                 lastSuccessfulLogin |-> row.last_successful_login,
                 failedAttempts      |-> getUserFailedAttempts(d, userId)] >>

\* INSERT OR REPLACE of the profile's three JSON columns.
saveUserProfile(d, profile) ==
    LET row == [typical_locations     |-> profile.typicalLocations,
                typical_login_hours   |-> profile.typicalLoginHours,
                last_successful_login |->
                    IF profile.lastSuccessfulLogin = <<>> THEN <<>>
                    ELSE <<JsonRoundTrip(profile.lastSuccessfulLogin[1])>>]
    IN  [d EXCEPT !.user_profiles =
            [u \in DOMAIN @ \cup {profile.userId} |->
                IF u = profile.userId THEN row ELSE @[u]]]

saveRiskAssessment(d, assessment) ==
    [d EXCEPT !.risk_assessments = Append(@,
        [user_id                |-> assessment.userId,
         timestamp              |-> assessment.timestamp,
         overall_risk           |-> assessment.overallRisk,
         risk_level             |-> assessment.riskLevel,
         location_change_risk   |-> assessment.factors.locationChange,
         impossible_travel_risk |-> assessment.factors.impossibleTravel,
         brute_force_risk       |-> assessment.factors.bruteForce,
         unusual_time_risk      |-> assessment.factors.unusualTime,
         recommendations        |-> assessment.recommendations,
         details                |-> assessment.details])]

(***************************************************************************)
(* Construction and the operations.                                        *)
(***************************************************************************)
\* constructor(config?): config ? { ...defaultConfig, ...config } : defaultConfig
Constructor(arg) == IF arg = NoConfig THEN defaultConfig ELSE MergeConfig(arg)

Users == {"alice", "bob"}
\* The clients of the API server, each with at most one request open.
Clients == {"c1", "c2"}
Addresses == {IpNewYork, IpTokyo, IpPrivate}
\* 10:00, 10:30 and 23:00 of one day.
Times == {36000000, 37800000, 82800000}

LoginAttempt(userId, timestamp, ipAddress, success) ==
    [userId |-> userId, timestamp |-> timestamp, tsKind |-> "Date",
     ipAddress |-> ipAddress, success |-> success]

AttemptsOf(users) ==
    {LoginAttempt(u, t, ip, ok) : u \in users, t \in Times, ip \in Addresses,
                                  ok \in BOOLEAN}

Init ==
    /\ config \in {Constructor(arg) : arg \in ConstructorArgs}
    /\ userProfiles = [u \in {} |-> 0]
    /\ db = [login_attempts   |-> <<>>,
             user_profiles    |-> [u \in {} |-> 0],
             risk_assessments |-> <<>>]
    /\ returned = <<>>
    /\ probe = [fn |-> "none"]
    /\ requests = [r \in Clients |-> [pc |-> "idle"]]

\* SuspiciousLoginDetector.analyzeLogin, in-memory engine.
AnalyzeLogin(attempt) ==
    LET profile == getUserProfile(attempt.userId)
        r == Analyze(attempt, profile, config)
    IN  /\ userProfiles' = [u \in DOMAIN userProfiles \cup {attempt.userId} |->
                               IF u = attempt.userId THEN r.profile ELSE userProfiles[u]]
        /\ returned' = Append(returned,
                              [engine       |-> "memory",
                               attempt      |-> attempt,
                               assessment   |-> r.assessment,
                               profile      |-> r.profile,
                               failureCount |-> r.failureCount])
        /\ UNCHANGED <<config, db, probe, requests>>

\* The store-backed analyzeLogin run on the store d from its first statement
\* to its return, every store call succeeding and no other call in between.
DbAnalyze(d, attempt, cfg) ==
    LET db1 == saveLoginAttempt(d, attempt)
        loaded == DbGetUserProfile(db1, attempt.userId)
        profile == IF loaded = <<>> THEN EmptyProfile(attempt.userId) ELSE loaded[1]
        r == Analyze(attempt, profile, cfg)
        db2 == saveRiskAssessment(db1, r.assessment)
        db3 == saveUserProfile(db2, r.profile)
    IN  [db |-> db3, result |-> r]

\* SuspiciousLoginDetector.analyzeLogin, store-backed engine, as one step.
DbAnalyzeLogin(attempt) ==
    LET db1 == saveLoginAttempt(db, attempt)
        loaded == DbGetUserProfile(db1, attempt.userId)
        profile == IF loaded = <<>> THEN EmptyProfile(attempt.userId) ELSE loaded[1]
        r == Analyze(attempt, profile, config)
        db2 == saveRiskAssessment(db1, r.assessment)
        db3 == saveUserProfile(db2, r.profile)
    IN  /\ db' = db3
        /\ returned' = Append(returned,
                              [engine       |-> "store",
                               attempt      |-> attempt,
                               assessment   |-> r.assessment,
                               profile      |-> r.profile,
                               failureCount |-> r.failureCount])
        /\ UNCHANGED <<config, userProfiles, probe, requests>>

(***************************************************************************)
(* POST /api/login/check (api/server.ts) on the store-backed engine.  The  *)
(* handler and analyzeLogin run until their next await; every store call   *)
(* is one statement of the store, executed at some later moment, after     *)
(* which the call goes on to the next one.  requests[c].pc names the store *)
(* call client c's request is waiting for.                                 *)
(***************************************************************************)
\* The handler up to the first await: the attempt is built from the body
\* and analyzeLogin issues saveLoginAttempt.
Receive(c, attempt) ==
    /\ requests[c].pc = "idle"
    /\ requests' = [requests EXCEPT ![c] = [pc |-> "saveLoginAttempt", attempt |-> attempt]]
    /\ UNCHANGED <<config, userProfiles, db, returned, probe>>

SaveLoginAttemptDone(c) ==
    /\ requests[c].pc = "saveLoginAttempt"
    /\ db' = saveLoginAttempt(db, requests[c].attempt)
    /\ requests' = [requests EXCEPT ![c].pc = "getUserProfile"]
    /\ UNCHANGED <<config, userProfiles, returned, probe>>

\* SELECT * FROM user_profiles: without a row getUserProfile resolves null
\* and analyzeLogin runs on to saveRiskAssessment; with one, the row is kept
\* and getUserLoginHistory is issued.
GetUserProfileRowDone(c) ==
    LET attempt == requests[c].attempt
    IN  /\ requests[c].pc = "getUserProfile"
        /\ requests' = [requests EXCEPT ![c] =
               IF attempt.userId \notin DOMAIN db.user_profiles
               THEN [pc      |-> "saveRiskAssessment",
                     attempt |-> attempt,
                     result  |-> Analyze(attempt, EmptyProfile(attempt.userId), config)]
               ELSE [pc      |-> "getUserLoginHistory",
                     attempt |-> attempt,
                     row     |-> db.user_profiles[attempt.userId]]]
        /\ UNCHANGED <<config, userProfiles, db, returned, probe>>

GetUserLoginHistoryDone(c) ==
    /\ requests[c].pc = "getUserLoginHistory"
    /\ requests' = [requests EXCEPT ![c] =
           [pc           |-> "getUserFailedAttempts",
            attempt      |-> requests[c].attempt,
            row          |-> requests[c].row,
            loginHistory |-> getUserLoginHistory(db, requests[c].attempt.userId)]]
    /\ UNCHANGED <<config, userProfiles, db, returned, probe>>

\* The last query of getUserProfile: the profile is complete and
\* analyzeLogin runs on to saveRiskAssessment.
GetUserFailedAttemptsDone(c) ==
    LET attempt == requests[c].attempt
        profile == [userId              |-> attempt.userId,
                    loginHistory        |-> requests[c].loginHistory,
                    typicalLocations    |-> requests[c].row.typical_locations,
                    typicalLoginHours   |-> requests[c].row.typical_login_hours,
                    lastSuccessfulLogin |-> requests[c].row.last_successful_login,
                    failedAttempts      |-> getUserFailedAttempts(db, attempt.userId)]
    IN  /\ requests[c].pc = "getUserFailedAttempts"
        /\ requests' = [requests EXCEPT ![c] =
               [pc      |-> "saveRiskAssessment",
                attempt |-> attempt,
                result  |-> Analyze(attempt, profile, config)]]
        /\ UNCHANGED <<config, userProfiles, db, returned, probe>>

SaveRiskAssessmentDone(c) ==
    /\ requests[c].pc = "saveRiskAssessment"
    /\ db' = saveRiskAssessment(db, requests[c].result.assessment)
    /\ requests' = [requests EXCEPT ![c].pc = "saveUserProfile"]
    /\ UNCHANGED <<config, userProfiles, returned, probe>>

\* The last store call: analyzeLogin returns and the handler answers with
\* the assessment.
SaveUserProfileDone(c) ==
    /\ requests[c].pc = "saveUserProfile"
    /\ db' = saveUserProfile(db, requests[c].result.profile)
    /\ requests' = [requests EXCEPT ![c] =
           [pc      |-> "resolved",
            attempt |-> requests[c].attempt,
            result  |-> requests[c].result,
            status  |-> 200]]
    /\ UNCHANGED <<config, userProfiles, returned, probe>>

StoreCalls ==
    {"saveLoginAttempt", "getUserProfile", "getUserLoginHistory",
     "getUserFailedAttempts", "saveRiskAssessment", "saveUserProfile"}

\* Mutant: a failed profile load is taken for "no profile" and the attempt
\* is scored on an empty one.
StoreError_StartsCold(c) ==
    /\ requests[c].pc \in StoreCalls
    /\ requests' = [requests EXCEPT ![c] =
           IF requests[c].pc \in {"getUserProfile", "getUserLoginHistory",
                                  "getUserFailedAttempts"}
           THEN [pc      |-> "saveRiskAssessment",
                 attempt |-> requests[c].attempt,
                 result  |-> Analyze(requests[c].attempt,
                                     EmptyProfile(requests[c].attempt.userId), config)]
           ELSE [pc      |-> "rejected",
                 attempt |-> requests[c].attempt,
                 at      |-> requests[c].pc,
                 status  |-> 500]]
    /\ UNCHANGED <<config, userProfiles, db, returned, probe>>

\* The store call the request waits for fails: its promise rejects, no
\* statement of analyzeLogin catches it, the handler's catch answers 500.
StoreError(c) ==
    /\ requests[c].pc \in StoreCalls
    /\ requests' = [requests EXCEPT ![c] =
           [pc      |-> "rejected",
            attempt |-> requests[c].attempt,
            at      |-> requests[c].pc,
            status  |-> 500]]
    /\ UNCHANGED <<config, userProfiles, db, returned, probe>>

\* One turn of analyzeMultiple's loop, in-memory engine: analyzeLogin on the
\* profiles the earlier turns left, its assessment pushed onto results.
AnalyzeNext(before, attempt, cfg) ==
    CHOOSE after \in
        {[userProfiles |->
             [u \in DOMAIN before.userProfiles \cup {attempt.userId} |->
                 IF u = attempt.userId THEN r.profile ELSE before.userProfiles[u]],
          results |-> Append(before.results, r.assessment)] :
            r \in {Analyze(attempt,
                           IF attempt.userId \in DOMAIN before.userProfiles
                           THEN before.userProfiles[attempt.userId]
                           ELSE EmptyProfile(attempt.userId),
                           cfg)}} : TRUE

\* Mutant: every attempt is analysed on the profiles the batch started from.
RECURSIVE analyzeMultiple_EachFromStart(_, _, _)
analyzeMultiple_EachFromStart(profiles, attempts, cfg) ==
    IF attempts = <<>>
    THEN [userProfiles |-> profiles, results |-> <<>>]
    ELSE CHOOSE after \in
            {[userProfiles |-> next.userProfiles,
              results      |-> before.results \o next.results] :
                before \in {analyzeMultiple_EachFromStart(
                               profiles, SubSeq(attempts, 1, Len(attempts) - 1), cfg)},
                next \in {AnalyzeNext([userProfiles |-> profiles, results |-> <<>>],
                                      attempts[Len(attempts)], cfg)}} : TRUE

\* analyzeMultiple, in-memory engine, on a detector holding profiles.
RECURSIVE analyzeMultiple(_, _, _)
analyzeMultiple(profiles, attempts, cfg) ==
    IF attempts = <<>>
    THEN [userProfiles |-> profiles, results |-> <<>>]
    ELSE CHOOSE after \in
            {AnalyzeNext(before, attempts[Len(attempts)], cfg) :
                before \in {analyzeMultiple(profiles,
                                            SubSeq(attempts, 1, Len(attempts) - 1),
                                            cfg)}} : TRUE

\* A second detector of the same configuration, holding no profile yet, is
\* given in one analyzeMultiple call the attempts this one analysed.
AnalyzeMultiple ==
    /\ probe.fn = "none"
    /\ \E run \in {analyzeMultiple([u \in {} |-> 0],
                                    [j \in 1..Len(returned) |-> returned[j].attempt],
                                    config)} :
           probe' = [fn           |-> "analyzeMultiple",
                     attempts     |-> [j \in 1..Len(returned) |-> returned[j].attempt],
                     results      |-> run.results,
                     userProfiles |-> run.userProfiles]
    /\ UNCHANGED <<config, userProfiles, db, returned, requests>>

(***************************************************************************)
(* The log analyzer (analyzer/logAnalyzer.ts): a file of logins is turned  *)
(* into attempts, sorted by timestamp and replayed to the analyzer's own   *)
(* detector.  A login of the file is [userId, timestamp, ipAddress,        *)
(* success], its timestamp a valid ISO string, given in milliseconds.      *)
(***************************************************************************)
\* attempts with attempt inserted after every entry that is not later:
\* Array.prototype.sort with (a, b) => a.timestamp - b.timestamp is stable.
InsertByTimestamp(attempts, attempt) ==
    LET k == Cardinality({i \in 1..Len(attempts) :
                             attempts[i].timestamp <= attempt.timestamp})
    IN  SubSeq(attempts, 1, k) \o <<attempt>> \o SubSeq(attempts, k + 1, Len(attempts))

RECURSIVE SortByTimestamp(_)
SortByTimestamp(attempts) ==
    IF attempts = <<>> THEN <<>>
    ELSE InsertByTimestamp(SortByTimestamp(SubSeq(attempts, 1, Len(attempts) - 1)),
                           attempts[Len(attempts)])

\* logins.map(login => ({ userId, timestamp: new Date(...), ipAddress, success }))
ToLoginAttempts(logins) ==
    [i \in 1..Len(logins) |->
        [userId    |-> logins[i].userId,
         timestamp |-> logins[i].timestamp,
         tsKind    |-> "Date",
         ipAddress |-> logins[i].ipAddress,
         success   |-> logins[i].success = TRUE]]

\* The user ids of assessments, each once, in order of first occurrence.
RECURSIVE DistinctUsers(_)
DistinctUsers(assessments) ==
    IF assessments = <<>> THEN <<>>
    ELSE LET before == DistinctUsers(SubSeq(assessments, 1, Len(assessments) - 1))
             userId == assessments[Len(assessments)].userId
         IN  IF \E i \in 1..Len(before) : before[i] = userId
             THEN before ELSE Append(before, userId)

\* reportGeneratedAt, the time of the wall clock, is left out.
generateReport(logins, assessments) ==
    LET suspiciousLogins == SelectSeq(assessments, LAMBDA a :
                                a.riskLevel = "high" \/ a.riskLevel = "critical")
    IN  [totalLogins      |-> Len(logins),
         suspiciousLogins |-> Len(suspiciousLogins),
         usersAnalyzed    |-> Cardinality({logins[i].userId : i \in 1..Len(logins)}),
         highRiskUsers    |-> DistinctUsers(suspiciousLogins),
         detailedResults  |-> assessments]

\* Mutant: the attempts are replayed in the order of the file.
analyzeLogins_FileOrder(profiles, logins, cfg) ==
    CHOOSE done \in
        {[replayed     |-> loginAttempts,
          userProfiles |-> run.userProfiles,
          report       |-> generateReport(loginAttempts, run.results)] :
            loginAttempts \in {ToLoginAttempts(logins)},
            run \in {analyzeMultiple(profiles, ToLoginAttempts(logins), cfg)}} : TRUE

\* LogAnalyzer.analyzeLogins on a detector holding profiles.
analyzeLogins(profiles, logins, cfg) ==
    CHOOSE done \in
        {[replayed     |-> loginAttempts,
          userProfiles |-> run.userProfiles,
          report       |-> generateReport(loginAttempts, run.results)] :
            loginAttempts \in {SortByTimestamp(ToLoginAttempts(logins))},
            run \in {analyzeMultiple(profiles,
                                     SortByTimestamp(ToLoginAttempts(logins)), cfg)}} : TRUE

\* The command line tool: a new LogAnalyzer analyses one file.
AnalyzeLogins(logins) ==
    /\ probe.fn = "none"
    /\ \E done \in {analyzeLogins(userProfiles, logins, config)} :
           /\ userProfiles' = done.userProfiles
           /\ probe' = [fn       |-> "analyzeLogins",
                        logins   |-> logins,
                        replayed |-> done.replayed,
                        report   |-> done.report]
    /\ UNCHANGED <<config, db, returned, requests>>

\* The calculators applied on their own.
Classify(score, thresholds) ==
    /\ probe' = [fn         |-> "determineRiskLevel",
                 score      |-> score,
                 thresholds |-> thresholds,
                 level      |-> determineRiskLevel(score, thresholds)]
    /\ UNCHANGED <<config, userProfiles, db, returned, requests>>

Aggregate(factors) ==
    /\ probe' = [fn          |-> "calculateOverallRisk",
                 factors     |-> factors,
                 overallRisk |-> calculateOverallRisk(factors)]
    /\ UNCHANGED <<config, userProfiles, db, returned, requests>>

(***************************************************************************)
(* The two POST endpoints of api/server.ts, each request run from its      *)
(* arrival to its answer.  A request body may leave userId or ipAddress    *)
(* out (undefined) or give the empty string.                               *)
(***************************************************************************)
undefined == "undefined"

\* !x for a string or undefined.
Falsy(x) == x = undefined \/ x = ""

\* NOT NULL on login_attempts.user_id and ip_address (undefined binds NULL).
NotNullViolated(attempt) == attempt.userId = undefined \/ attempt.ipAddress = undefined

\* One turn of analyzeMultiple's loop in the store-backed engine: before is
\* what the earlier turns left, calls the attempts analyzeLogin was called
\* with; a rejected call ends the loop.
DbAnalyzeNext(before, attempt, cfg) ==
    IF before.rejected THEN before
    ELSE IF NotNullViolated(attempt)
    THEN [before EXCEPT !.calls = Append(@, attempt), !.rejected = TRUE]
    ELSE CHOOSE after \in {[db       |-> run.db,
                            results  |-> Append(before.results, run.result.assessment),
                            calls    |-> Append(before.calls, attempt),
                            rejected |-> FALSE] :
                              run \in {DbAnalyze(before.db, attempt, cfg)}} : TRUE

\* analyzeMultiple of the store-backed engine.
RECURSIVE DbAnalyzeMultiple(_, _, _)
DbAnalyzeMultiple(d, attempts, cfg) ==
    IF attempts = <<>>
    THEN [db |-> d, results |-> <<>>, calls |-> <<>>, rejected |-> FALSE]
    ELSE CHOOSE after \in
            {DbAnalyzeNext(before, attempts[Len(attempts)], cfg) :
                before \in {DbAnalyzeMultiple(d, SubSeq(attempts, 1, Len(attempts) - 1),
                                              cfg)}} : TRUE

\* The LoginAttempt the handlers build from the i-th body of a request.
BodyAttempt(body, i) ==
    LoginAttempt(body.userId, 36000000 + (i - 1) * 60000, body.ipAddress, body.success)

\* POST /api/login/check
PostCheck(body) ==
    LET loginAttempt == BodyAttempt(body, 1)
        invalid == Falsy(loginAttempt.userId) \/ Falsy(loginAttempt.ipAddress)
    IN  \E run \in {IF invalid THEN DbAnalyzeMultiple(db, <<>>, config)
                     ELSE DbAnalyzeMultiple(db, <<loginAttempt>>, config)} :
            /\ db' = run.db
            /\ probe' = [fn       |-> "POST /api/login/check",
                         attempts |-> <<loginAttempt>>,
                         calls    |-> run.calls,
                         status   |-> IF invalid THEN 400
                                      ELSE IF run.rejected THEN 500 ELSE 200,
                         results  |-> run.results]
            /\ UNCHANGED <<config, userProfiles, returned, requests>>

\* POST /api/login/batch
PostBatch(bodies) ==
    LET validatedAttempts == [i \in 1..Len(bodies) |-> BodyAttempt(bodies[i], i)]
    IN  \E run \in {DbAnalyzeMultiple(db, validatedAttempts, config)} :
            /\ db' = run.db
            /\ probe' = [fn       |-> "POST /api/login/batch",
                         attempts |-> validatedAttempts,
                         calls    |-> run.calls,
                         status   |-> IF run.rejected THEN 500 ELSE 200,
                         results  |-> run.results]
            /\ UNCHANGED <<config, userProfiles, returned, requests>>

\* determineRiskLevel under the thresholds the detector was constructed
\* with; arg is the constructor's argument.
ClassifyConfigured(score) ==
    /\ probe' = [fn         |-> "determineRiskLevel",
                 arg        |-> probe.arg,
                 score      |-> score,
                 thresholds |-> config.riskThresholds,
                 level      |-> determineRiskLevel(score, config.riskThresholds)]
    /\ UNCHANGED <<config, userProfiles, db, returned, requests>>

\* analyzeLogin from the factors on: score, level and recommendations.
Recommend(factors) ==
    LET overallRisk == calculateOverallRisk(factors)
        riskLevel == determineRiskLevel(overallRisk, config.riskThresholds)
    IN  /\ probe' = [fn         |-> "generateRecommendations",
                     assessment |->
                        [overallRisk     |-> overallRisk,
                         riskLevel       |-> riskLevel,
                         factors         |-> factors,
                         recommendations |-> generateRecommendations(factors, riskLevel)]]
        /\ UNCHANGED <<config, userProfiles, db, returned, requests>>

(***************************************************************************)
(* Specifications.                                                         *)
(***************************************************************************)
\* In-memory engine, two users.
Next ==
    \E attempt \in AttemptsOf(Users) :
        /\ Len(returned) < MaxAttempts
        /\ AnalyzeLogin(attempt)

Spec == Init /\ [][Next]_vars

\* In-memory engine, one user, longer histories.
NextUser ==
    \E attempt \in AttemptsOf({"alice"}) :
        /\ Len(returned) < MaxHistory
        /\ AnalyzeLogin(attempt)

SpecUser == Init /\ [][NextUser]_vars

\* Store-backed engine, one user.
NextDb ==
    \E attempt \in AttemptsOf({"alice"}) :
        /\ Len(returned) < MaxHistory
        /\ DbAnalyzeLogin(attempt)

SpecDb == Init /\ [][NextDb]_vars

\* In-memory engine replaying one user's log in time order: failed attempts
\* 1 or 16 minutes apart, at most MaxBurst of them, ended by the first
\* success, which comes 1, 16 or 31 minutes after the attempt before it.
NextBurstTimes(ok) ==
    IF returned = <<>> THEN {36000000}
    ELSE LET last == returned[Len(returned)].attempt.timestamp
         IN  {last + 60000, last + 960000} \cup (IF ok THEN {last + 1860000} ELSE {})

NextBurst ==
    \E ok \in BOOLEAN :
        \E t \in NextBurstTimes(ok) :
            /\ \A i \in 1..Len(returned) : ~returned[i].attempt.success
            /\ ~ok => Len(returned) < MaxBurst
            /\ AnalyzeLogin(LoginAttempt("alice", t, IpNewYork, ok))

SpecBurst == Init /\ [][NextBurst]_vars

\* determineRiskLevel over every score and three threshold tables, the last
\* one out of order.
ThresholdTables ==
    { defaultConfig.riskThresholds,
      customConfig.riskThresholds,
      [low |-> 30, medium |-> 80, high |-> 50, critical |-> 60] }

NextClassify ==
    \E score \in 0..100 : \E thresholds \in ThresholdTables :
        Classify(score, thresholds)

SpecClassify == Init /\ [][NextClassify]_vars

\* calculateOverallRisk over values the calculators return (8126/135 is New
\* York-Tokyo in 12 hours at 900 km/h, 155/2 is 5 failures at threshold 4)
\* and the locationChange 20 of the documented example.
FactorVectors ==
    [ locationChange   : {Num(0), Num(20), Num(40)},
      impossibleTravel : {Num(0), Num(30), Norm(8126, 135), Num(100)},
      bruteForce       : {Num(0), Num(40), Num(70), Num(76), Norm(155, 2), Num(100)},
      unusualTime      : {Num(0), Num(35)} ]

NextAggregate == \E factors \in FactorVectors : Aggregate(factors)

SpecAggregate == Init /\ [][NextAggregate]_vars

\* Score, level and recommendations over the same factor values.
NextRecommend == \E factors \in FactorVectors : Recommend(factors)

SpecRecommend == Init /\ [][NextRecommend]_vars

\* A detector built without arguments.
InitDefault == Init /\ config = defaultConfig

\* The API server: up to MaxPrior requests of alice served one at a time
\* (New York, from 09:00, half an hour apart), then one request per client,
\* c1's first, from New York or Tokyo, stamped 10:00 and 10:01; at most one
\* store call fails.
Received == Cardinality({c \in Clients : requests[c].pc # "idle"})

NextServer ==
    \/ \E ok \in BOOLEAN :
          /\ Received = 0
          /\ Len(returned) < MaxPrior
          /\ DbAnalyzeLogin(LoginAttempt("alice", 32400000 + Len(returned) * 1800000,
                                         IpNewYork, ok))
    \/ \E c \in Clients : \E u \in Users : \E ip \in {IpNewYork, IpTokyo} :
          \E ok \in BOOLEAN :
             /\ c = "c2" => requests["c1"].pc # "idle"
             /\ Receive(c, LoginAttempt(u, 36000000 + Received * 60000, ip, ok))
    \/ \E c \in Clients : SaveLoginAttemptDone(c)
    \/ \E c \in Clients : GetUserProfileRowDone(c)
    \/ \E c \in Clients : GetUserLoginHistoryDone(c)
    \/ \E c \in Clients : GetUserFailedAttemptsDone(c)
    \/ \E c \in Clients : SaveRiskAssessmentDone(c)
    \/ \E c \in Clients : SaveUserProfileDone(c)
    \/ \E c \in Clients :
          /\ \A other \in Clients : requests[other].pc # "rejected"
          /\ StoreError(c)

SpecServer == InitDefault /\ [][NextServer]_vars

\* In-memory engine: up to MaxBatch attempts of two users at 10:00 or 10:30
\* analysed one by one, then the same attempts as one batch.
NextBatch ==
    \/ \E attempt \in {a \in AttemptsOf(Users) : a.timestamp < 82800000} :
          /\ probe.fn = "none"
          /\ Len(returned) < MaxBatch
          /\ AnalyzeLogin(attempt)
    \/ AnalyzeMultiple

SpecBatch == Init /\ [][NextBatch]_vars

\* Detectors constructed with any of the partial configurations, each
\* classifying every score.
InitConstruct ==
    /\ probe \in {[fn |-> "constructor", arg |-> arg] : arg \in PartialConfigs}
    /\ config = Constructor(probe.arg)
    /\ userProfiles = [u \in {} |-> 0]
    /\ db = [login_attempts   |-> <<>>,
             user_profiles    |-> [u \in {} |-> 0],
             risk_assessments |-> <<>>]
    /\ returned = <<>>
    /\ requests = [r \in Clients |-> [pc |-> "idle"]]

NextConstruct == \E score \in 0..100 : ClassifyConfigured(score)

SpecConstruct == InitConstruct /\ [][NextConstruct]_vars

\* The API server answering one request, single or batch, whose bodies may
\* lack userId or ipAddress.
Bodies ==
    [userId : {"alice", "", undefined}, ipAddress : {IpNewYork, "", undefined},
     success : BOOLEAN]

Batches == UNION {[1..n -> Bodies] : n \in 0..MaxBatch}

NextBoundary ==
    /\ probe.fn = "none"
    /\ \/ \E body \in Bodies : PostCheck(body)
       \/ \E bodies \in Batches : PostBatch(bodies)

SpecBoundary == InitDefault /\ [][NextBoundary]_vars

\* In-memory engine built without arguments, one user logging in from New
\* York once a day at 10:00 or at 03:00; at most one of the attempts fails.
DayHours == {10, 3}

NextHours ==
    \E hour \in DayHours : \E ok \in BOOLEAN :
        /\ Len(returned) < MaxLogins
        /\ ~ok => \A i \in 1..Len(returned) : returned[i].attempt.success
        /\ AnalyzeLogin(LoginAttempt("alice",
                                     Len(returned) * 86400000 + hour * 3600000,
                                     IpNewYork, ok))

SpecHours == InitDefault /\ [][NextHours]_vars

\* In-memory engine, either configuration: one user is analysed twice, first
\* at MaxHalfHours half hours past midnight and then at any half hour up to
\* MaxHalfHours before or after that, from any of four addresses; then the
\* elapsed time and the required speed of the second analysis are computed
\* as calculateImpossibleTravelRisk computes them.
MaxHalfHours == 40

TravelAddresses == {IpNewYork, IpTokyo, IpLondon, IpPrivate}

RequiredSpeed ==
    /\ probe.fn = "none"
    /\ Len(returned) = 2
    /\ returned[2].profile.lastSuccessfulLogin # <<>>
    /\ LET attempt == returned[2].attempt
           last == returned[2].profile.lastSuccessfulLogin[1]
           currentLocation == getLocationFromIP(attempt.ipAddress)
           previousLocation == getLocationFromIP(last.ipAddress)
       IN  /\ currentLocation # <<>> /\ previousLocation # <<>>
           /\ ~SameCity(currentLocation[1], previousLocation[1])
           /\ \E timeDiff \in {getTimeDifferenceInHours(last.tsKind, last.timestamp,
                                                       attempt.tsKind, attempt.timestamp)} :
                  probe' = [fn            |-> "calculateTravelSpeed",
                            previous      |-> last,
                            current       |-> attempt,
                            timeDiff      |-> timeDiff,
                            requiredSpeed |-> calculateTravelSpeed(previousLocation[1],
                                                                   currentLocation[1],
                                                                   timeDiff)]
    /\ UNCHANGED <<config, userProfiles, db, returned, requests>>

NextTravel ==
    \/ \E ip \in TravelAddresses : \E ok \in BOOLEAN :
           /\ Len(returned) = 0
           /\ AnalyzeLogin(LoginAttempt("alice", MaxHalfHours * 1800000, ip, ok))
    \/ \E m \in 0..(2 * MaxHalfHours) : \E ip \in TravelAddresses : \E ok \in BOOLEAN :
           /\ Len(returned) = 1
           /\ AnalyzeLogin(LoginAttempt("alice", m * 1800000, ip, ok))
    \/ RequiredSpeed

SpecTravel == Init /\ [][NextTravel]_vars

\* In-memory engine, either configuration: one user fails or succeeds at
\* 00:31:00 and is then analysed at most MaxHistory - 1 more times, each time
\* at one of these distances in seconds before or after 00:31:00.
WindowOffsets == {0, 1770, 1800, 1830, 1860}

NextWindow ==
    \/ \E ok \in BOOLEAN :
           /\ Len(returned) = 0
           /\ AnalyzeLogin(LoginAttempt("alice", 1860000, IpNewYork, ok))
    \/ \E o \in WindowOffsets : \E sign \in {-1, 1} : \E ok \in BOOLEAN :
           /\ Len(returned) \in 1..(MaxHistory - 1)
           /\ AnalyzeLogin(LoginAttempt("alice", 1860000 + sign * o * 1000, IpNewYork, ok))

SpecWindow == Init /\ [][NextWindow]_vars

\* In-memory engine built without arguments, one user logging in from New
\* York once a day, at midnight or at the hour that is as many hours past
\* midnight as attempts were analysed before; at most one attempt fails.
NextSpread ==
    \E hour \in {0, Len(returned) % 24} : \E ok \in BOOLEAN :
        /\ Len(returned) < MaxLogins
        /\ ~ok => \A i \in 1..Len(returned) : returned[i].attempt.success
        /\ AnalyzeLogin(LoginAttempt("alice",
                                     Len(returned) * 86400000 + hour * 3600000,
                                     IpNewYork, ok))

SpecSpread == InitDefault /\ [][NextSpread]_vars

\* The log analyzer given a file of at most MaxLog logins of two users, in
\* any order, at three instants of one day.
MaxLog == 3

Logins ==
    [userId : Users, timestamp : Times, ipAddress : {IpNewYork}, success : BOOLEAN]

NextLog ==
    \E n \in 0..MaxLog : \E logins \in [1..n -> Logins] : AnalyzeLogins(logins)

SpecLog == InitDefault /\ [][NextLog]_vars

\* In-memory engine built without arguments, one user: successful logins
\* from New York at 10:00, one a day and fewer than MaxLogins of them, then
\* at most MaxBurst failed attempts a minute apart from 11:00 of the last
\* day on, each from New York or Tokyo.
NextCeiling ==
    \/ /\ Len(returned) < MaxLogins - 1
       /\ \A i \in 1..Len(returned) : returned[i].attempt.success
       /\ AnalyzeLogin(LoginAttempt("alice", Len(returned) * 86400000 + 36000000,
                                    IpNewYork, TRUE))
    \/ \E ip \in {IpNewYork, IpTokyo} :
           \E run \in {[successes |-> Cardinality({i \in 1..Len(returned) :
                                                     returned[i].attempt.success})]} :
               /\ Len(returned) - run.successes < MaxBurst
               /\ AnalyzeLogin(LoginAttempt(
                      "alice",
                      (IF run.successes = 0 THEN 0 ELSE run.successes - 1) * 86400000
                          + 39600000 + (Len(returned) - run.successes) * 60000,
                      ip, FALSE))

SpecCeiling == InitDefault /\ [][NextCeiling]_vars

(***************************************************************************)
(* Properties.                                                             *)
(***************************************************************************)
Calls == 1..Len(returned)

\* The calls before call j that analysed an attempt of the same user.
Earlier(j) == {i \in 1..(j - 1) : returned[i].attempt.userId = returned[j].attempt.userId}

Resolves(attempt) == getLocationFromIP(attempt.ipAddress) # <<>>

LocationOf(attempt) == getLocationFromIP(attempt.ipAddress)[1]

SamePlace(a, b) ==
    /\ Resolves(a) /\ Resolves(b)
    /\ LocationOf(a).country = LocationOf(b).country
    /\ LocationOf(a).city = LocationOf(b).city

\* C1: every assessment returned by analyzeLogin carries an integer
\* overallRisk between 0 and 100, whatever was analysed before.
C1_OverallRiskInRange ==
    \A j \in Calls : returned[j].assessment.overallRisk \in 0..100

\* A failed attempt from a new city, too far from the last success:
\* 0.2 * 40 + 0.4 * 100 = 48.
C1_Witness ==
    \E j \in Calls :
        /\ returned[j].assessment.factors.locationChange = Num(40)
        /\ returned[j].assessment.factors.impossibleTravel = Num(100)
        /\ returned[j].assessment.overallRisk = 48

\* C2: a success B of a user from city Y, after that user's success A from
\* another city X, with distance(X,Y) / elapsed hours above maxTravelSpeed,
\* is assessed impossibleTravel = min(100, 60 + (speed/maxTravelSpeed - 1) * 40)
\* (100 for New York then Tokyo 30 minutes later).
C2_ImpossibleTravelOnSuccess ==
    \A j \in Calls :
        LET b == returned[j].attempt
            before == {i \in Earlier(j) : returned[i].attempt.success}
        IN  (b.success /\ before # {}) =>
            LET a == returned[CHOOSE i \in before : \A k \in before : k <= i].attempt
                \* the model's instants are whole minutes apart
                elapsedMin == Abs(b.timestamp - a.timestamp) \div 60000
                km == IF SamePlace(a, b) THEN 0
                      ELSE calculateDistance(LocationOf(a).latitude, LocationOf(a).longitude,
                                             LocationOf(b).latitude, LocationOf(b).longitude).n
                \* speed > maxTravelSpeed, with speed = km / (elapsedMin / 60)
                tooFast == km * 60 > config.maxTravelSpeed * elapsedMin
                expected ==
                    IF elapsedMin = 0 THEN Num(100)
                    ELSE MathMin(Num(100),
                                 Norm(20 * config.maxTravelSpeed * elapsedMin + 40 * km * 60,
                                      config.maxTravelSpeed * elapsedMin))
            IN  (Resolves(a) /\ Resolves(b) /\ ~SamePlace(a, b) /\ tooFast) =>
                    returned[j].assessment.factors.impossibleTravel = expected

\* C3: the first attempt ever analysed for a user, when its address resolves,
\* leaves its location in typicalLocations and is assessed locationChange = 0.
C3_ColdStart ==
    \A j \in Calls :
        (Earlier(j) = {} /\ Resolves(returned[j].attempt)) =>
            /\ returned[j].assessment.factors.locationChange = Num(0)
            /\ \E i \in 1..Len(userProfiles[returned[j].attempt.userId].typicalLocations) :
                   SameCity(userProfiles[returned[j].attempt.userId].typicalLocations[i],
                            LocationOf(returned[j].attempt))

\* Call j is the last of a run of failed attempts of one user, from the user's
\* first attempt on, all within the brute-force window of call j.
FailedRun(j) ==
    \A i \in 1..j :
        /\ returned[i].attempt.userId = returned[j].attempt.userId
        /\ ~returned[i].attempt.success
        /\ Abs(returned[i].attempt.timestamp - returned[j].attempt.timestamp)
               <= config.bruteForceWindow * 60000

\* C4: the k-th of k consecutive failed attempts of a user, all inside the
\* window, is scored on a failure count of exactly k (the attempt counts
\* itself once), in the store-backed engine as in the in-memory one.
C4_FailureCountsItselfOnce ==
    \A j \in Calls : FailedRun(j) => returned[j].failureCount = j

\* C5: an attempt (failed or successful) that follows at least
\* bruteForceThreshold failed attempts of its user whose timestamps lie
\* within bruteForceWindow minutes of its own is assessed bruteForce >= 70.
C5_BruteForceAfterThreshold ==
    \A j \in Calls :
        LET inWindow == {i \in Earlier(j) :
                            /\ ~returned[i].attempt.success
                            /\ Abs(returned[i].attempt.timestamp
                                   - returned[j].attempt.timestamp)
                                   <= config.bruteForceWindow * 60000}
        IN  Cardinality(inWindow) >= config.bruteForceThreshold =>
                Ge(returned[j].assessment.factors.bruteForce, Num(70))

\* Defaults: eight failures a minute apart, then a success a minute later,
\* assessed bruteForce = 88.
C5_Witness ==
    /\ config = defaultConfig
    /\ Len(returned) = 9
    /\ returned[9].attempt.success
    /\ returned[9].attempt.timestamp - returned[1].attempt.timestamp = 8 * 60000
    /\ returned[9].assessment.factors.bruteForce = Num(88)

Rank(level) ==
    CASE level = "low" -> 0 [] level = "medium" -> 1
      [] level = "high" -> 2 [] level = "critical" -> 3

DocumentedBand(score) ==
    IF score <= 29 THEN "low"
    ELSE IF score <= 49 THEN "medium"
    ELSE IF score <= 69 THEN "high"
    ELSE "critical"

\* C7: under the default configuration every assessment is classified by
\* the documented bands.
C7_DocumentedBands ==
    \A j \in Calls :
        config = defaultConfig =>
            returned[j].assessment.riskLevel
                = DocumentedBand(returned[j].assessment.overallRisk)

C9_KnownLocationNoChange ==
    \A j \in Calls :
        (\E i \in Earlier(j) : SamePlace(returned[i].attempt, returned[j].attempt)) =>
            returned[j].assessment.factors.locationChange = Num(0)

\* New York, then Tokyo, then New York again.
C9_Witness ==
    /\ Len(returned) = 3
    /\ SameCity(LocationOf(returned[1].attempt), NewYork)
    /\ returned[2].attempt.ipAddress = IpTokyo
    /\ returned[2].assessment.factors.locationChange = Num(40)
    /\ SameCity(LocationOf(returned[3].attempt), NewYork)
    /\ returned[3].assessment.factors.locationChange = Num(0)

\* C10: analyzeLogin is not idempotent.  When the identical attempt is
\* analysed twice in a row the second call sees the first call's entry: a
\* failed attempt is scored on a failure count one higher, and an attempt
\* that was the user's first, from an address that resolves, gets a different
\* assessment the second time.
C10_SecondCallSeesFirst ==
    \A j \in Calls :
        (j > 1 /\ returned[j].attempt = returned[j - 1].attempt) =>
            /\ ~returned[j].attempt.success =>
                   returned[j].failureCount = returned[j - 1].failureCount + 1
            /\ (Earlier(j - 1) = {} /\ Resolves(returned[j].attempt)) =>
                   returned[j].assessment # returned[j - 1].assessment

\* The same first attempt analysed twice: overallRisk 8, then 0.
C10_Witness ==
    /\ Len(returned) = 2
    /\ returned[2].attempt = returned[1].attempt
    /\ returned[1].assessment.overallRisk = 8
    /\ returned[2].assessment.overallRisk = 0

\* The successful attempts of call j's user analysed up to and including call j.
SuccessesThrough(j) ==
    {i \in 1..j : /\ returned[i].attempt.userId = returned[j].attempt.userId
                  /\ returned[i].attempt.success}

\* C11: while the user has fewer than 10 successful logins, the current one
\* included, every assessment has unusualTime = 0 and the profile's
\* typicalLoginHours is still empty.
C11_NoJudgementBeforeTenSuccesses ==
    \A j \in Calls :
        Cardinality(SuccessesThrough(j)) < 10 =>
            /\ returned[j].assessment.factors.unusualTime = Num(0)
            /\ returned[j].profile.typicalLoginHours = <<>>
            /\ j = Len(returned) =>
                   userProfiles[returned[j].attempt.userId].typicalLoginHours = <<>>

\* Ten calls, nine of them successful, at both hours of the day.
C11_Witness ==
    /\ Len(returned) = 10
    /\ Cardinality(SuccessesThrough(10)) = 9
    /\ \E i, k \in Calls : /\ returned[i].attempt.success
                           /\ returned[k].attempt.success
                           /\ getHourOfDay(returned[i].attempt.timestamp)
                                # getHourOfDay(returned[k].attempt.timestamp)
    /\ returned[10].assessment.factors.unusualTime = Num(0)

\* The successful attempts of call j's user analysed before call j.
SuccessesBefore(j) == {i \in Earlier(j) : returned[i].attempt.success}

\* The hour of the first of a non-empty set of calls.
HourOfFirst(calls) ==
    getHourOfDay(returned[CHOOSE i \in calls : \A k \in calls : i <= k].attempt.timestamp)

\* Every attempt of a non-empty set of calls was made in the same hour.
SameHour(calls) ==
    \A i \in calls : getHourOfDay(returned[i].attempt.timestamp) = HourOfFirst(calls)

\* C12: once 10 successful logins of a user all fell in the same hour h,
\* typicalLoginHours is {h}, and the login after them, made at another hour,
\* gets unusualTime = 35.
C12_EleventhLoginAtOtherHour ==
    \A j \in Calls :
        /\ ( /\ returned[j].attempt.success
             /\ Cardinality(SuccessesThrough(j)) = 10
             /\ SameHour(SuccessesThrough(j)) )
           => returned[j].profile.typicalLoginHours = <<HourOfFirst(SuccessesThrough(j))>>
        /\ ( /\ Cardinality(SuccessesBefore(j)) = 10
             /\ SameHour(SuccessesBefore(j))
             /\ getHourOfDay(returned[j].attempt.timestamp) # HourOfFirst(SuccessesBefore(j)) )
           => returned[j].assessment.factors.unusualTime = Num(35)

\* Ten successful logins at 10:00, then a successful one at 03:00.
C12_Witness ==
    /\ Len(returned) = 11
    /\ \A i \in 1..10 : /\ returned[i].attempt.success
                         /\ getHourOfDay(returned[i].attempt.timestamp) = 10
    /\ returned[10].profile.typicalLoginHours = <<10>>
    /\ returned[11].attempt.success
    /\ getHourOfDay(returned[11].attempt.timestamp) = 3
    /\ returned[11].assessment.factors.unusualTime = Num(35)

\* The profiles to look at: the ones the in-memory engine holds and the one
\* each call left behind.
Profiles ==
    {userProfiles[u] : u \in DOMAIN userProfiles} \cup {returned[j].profile : j \in Calls}

\* C13: no profile ever holds two typical locations with the same country
\* and city.
C13_TypicalLocationsDistinct ==
    \A profile \in Profiles :
        \A i, k \in 1..Len(profile.typicalLocations) :
            SameCity(profile.typicalLocations[i], profile.typicalLocations[k]) => i = k

\* New York, Tokyo, New York again: two typical locations after three calls.
C13_Witness ==
    /\ Len(returned) = 3
    /\ returned[1].attempt.ipAddress = IpNewYork
    /\ returned[2].attempt.ipAddress = IpTokyo
    /\ returned[3].attempt.ipAddress = IpNewYork
    /\ Len(userProfiles["alice"].typicalLocations) = 2

C15_SaveFailureStillReturns ==
    \A c \in Clients :
        requests[c].pc = "rejected" =>
            requests[c].at \notin {"saveRiskAssessment", "saveUserProfile"}

\* The store after running the attempts one after the other on an empty one.
RECURSIVE DbReplay(_)
DbReplay(attempts) ==
    IF attempts = <<>>
    THEN [login_attempts   |-> <<>>,
          user_profiles    |-> [u \in {} |-> 0],
          risk_assessments |-> <<>>]
    ELSE DbAnalyze(DbReplay(SubSeq(attempts, 1, Len(attempts) - 1)),
                   attempts[Len(attempts)], config).db

\* The attempts analysed before the two clients' requests arrived.
Prior == [j \in Calls |-> returned[j].attempt]

\* The requests of c1 and c2 run whole, first then second, after Prior.
OneAfterTheOther(first, second) ==
    LET run1 == DbAnalyze(DbReplay(Prior), requests[first].attempt, config)
        run2 == DbAnalyze(run1.db, requests[second].attempt, config)
    IN  [first |-> run1.result.assessment,
         second |-> run2.result.assessment,
         user_profiles |-> run2.db.user_profiles]

\* The request of client c is between its profile load and its profile save.
Loading(c) ==
    requests[c].pc \in {"getUserLoginHistory", "getUserFailedAttempts",
                        "saveRiskAssessment", "saveUserProfile"}

\* C16: two check requests for the same user never overlap between profile
\* load and profile save, and once both are answered their assessments and
\* the stored profile are those of running them one after the other in one
\* of the two orders.
C16_SameUserSerialized ==
    (/\ requests["c1"].pc # "idle" /\ requests["c2"].pc # "idle"
     /\ requests["c1"].attempt.userId = requests["c2"].attempt.userId)
    => /\ ~(Loading("c1") /\ Loading("c2"))
       /\ (requests["c1"].pc = "resolved" /\ requests["c2"].pc = "resolved")
          => \E order \in {<<"c1", "c2">>, <<"c2", "c1">>} :
                LET serial == OneAfterTheOther(order[1], order[2])
                    userId == requests["c1"].attempt.userId
                IN  /\ requests[order[1]].result.assessment = serial.first
                    /\ requests[order[2]].result.assessment = serial.second
                    /\ db.user_profiles[userId] = serial.user_profiles[userId]

\* The request of client c run whole and alone after the user's own earlier
\* attempts.
Alone(c) ==
    DbAnalyze(DbReplay(SelectSeq(Prior, LAMBDA a : a.userId = requests[c].attempt.userId)),
              requests[c].attempt, config)

\* C17: a request answered while no request for the same user was open has
\* the assessment, and leaves the stored profile, of that user's requests
\* run alone, however its store calls interleaved with another user's.
C17_DistinctUsersIndependent ==
    \A c \in Clients :
        (/\ requests[c].pc = "resolved"
         /\ \A other \in Clients \ {c} :
               \/ requests[other].pc = "idle"
               \/ requests[other].attempt.userId # requests[c].attempt.userId)
        => /\ requests[c].result = Alone(c).result
           /\ db.user_profiles[requests[c].attempt.userId]
                 = Alone(c).db.user_profiles[requests[c].attempt.userId]

\* alice, who failed once before, and bob are both answered; bob's request
\* arrived second and failed, yet its assessment was stored first.
C17_Witness ==
    /\ Len(returned) = 1
    /\ ~returned[1].attempt.success
    /\ requests["c1"].pc = "resolved" /\ requests["c2"].pc = "resolved"
    /\ requests["c1"].attempt.userId = "alice"
    /\ requests["c2"].attempt.userId = "bob"
    /\ ~requests["c2"].attempt.success
    /\ db.risk_assessments[2].user_id = "bob"
    /\ db.risk_assessments[3].user_id = "alice"

\* One of the six rules of generateRecommendations fires on the assessment.
RuleFired(assessment) ==
    \/ assessment.riskLevel \in {"critical", "high"}
    \/ Gt(assessment.factors.impossibleTravel, Num(50))
    \/ Gt(assessment.factors.bruteForce, Num(50))
    \/ Gt(assessment.factors.locationChange, Num(30))
    \/ Gt(assessment.factors.unusualTime, Num(30))
    \/ assessment.riskLevel = "medium"

\* The assessments made so far, whole or from the factors on.
Assessed ==
    {returned[j].assessment : j \in Calls}
        \cup (IF probe.fn = "generateRecommendations" THEN {probe.assessment} ELSE {})

\* C18: every assessment has at least one recommendation; "Login appears
\* legitimate - allow access" is among them exactly when none of the six
\* rules fired, and then it is the only one.
C18_LegitimateIffNoRule ==
    \A assessment \in Assessed :
        LET recommendations == assessment.recommendations
        IN  /\ Len(recommendations) > 0
            /\ (\E i \in 1..Len(recommendations) : recommendations[i] = Legitimate)
                   <=> ~RuleFired(assessment)
            /\ ~RuleFired(assessment) => recommendations = <<Legitimate>>

\* Three factors above 0, none above its rule's limit, level low: nothing
\* fired.
C18_Witness ==
    /\ probe.fn = "generateRecommendations"
    /\ probe.assessment.factors.locationChange = Num(20)
    /\ probe.assessment.factors.impossibleTravel = Num(30)
    /\ probe.assessment.factors.bruteForce = Num(40)
    /\ probe.assessment.overallRisk = 28
    /\ probe.assessment.recommendations = <<Legitimate>>

\* The profile call j started from.
ProfileBefore(j) ==
    IF Earlier(j) = {} THEN EmptyProfile(returned[j].attempt.userId)
    ELSE returned[CHOOSE i \in Earlier(j) : \A k \in Earlier(j) : k <= i].profile

\* C19: an attempt whose address has no location is analysed like any
\* other: its assessment has locationChange = 0 and impossibleTravel = 0
\* and the analysis leaves typicalLocations as it was.
C19_UnresolvedAddressNeutral ==
    \A j \in Calls :
        ~Resolves(returned[j].attempt) =>
            /\ returned[j].assessment.userId = returned[j].attempt.userId
            /\ returned[j].assessment.factors.locationChange = Num(0)
            /\ returned[j].assessment.factors.impossibleTravel = Num(0)
            /\ returned[j].profile.typicalLocations = ProfileBefore(j).typicalLocations

\* A success from New York, then an attempt from a private address.
C19_Witness ==
    /\ Len(returned) >= 2
    /\ returned[1].attempt.success
    /\ returned[1].attempt.ipAddress = IpNewYork
    /\ returned[2].attempt.ipAddress = IpPrivate
    /\ returned[2].profile.typicalLocations = <<NewYork>>

\* C20: each of the four factors of every assessment is a whole number
\* between 0 and 100.
C20_FactorsWholeInRange ==
    \A j \in Calls :
        LET factors == returned[j].assessment.factors
        IN  \A x \in {factors.locationChange, factors.impossibleTravel,
                      factors.bruteForce, factors.unusualTime} :
                IsWhole(x) /\ Ge(x, Num(0)) /\ Ge(Num(100), x)

\* getUserProfileData of the engine that served call j, for that call's user.
ProfileData(j) ==
    IF returned[j].engine = "memory"
    THEN userProfiles[returned[j].attempt.userId]
    ELSE DbGetUserProfile(db, returned[j].attempt.userId)[1]

\* C21: the profile the k-th attempt of a user is scored on has exactly k
\* loginHistory entries, and after the user's n-th call getUserProfileData
\* returns a loginHistory of exactly n entries.
C21_EachAttemptOnce ==
    \A j \in Calls :
        /\ Len(returned[j].profile.loginHistory) = Cardinality(Earlier(j)) + 1
        /\ (\A i \in Calls : j \in Earlier(i) => FALSE)
              => Len(ProfileData(j).loginHistory) = Cardinality(Earlier(j)) + 1

\* C22: an attempt without userId or without address, sent to the single or
\* to the batch endpoint, is never handed to analyzeLogin and leaves no
\* row and no profile in the store.
C22_MissingFieldsRejected ==
    probe.fn \in {"POST /api/login/check", "POST /api/login/batch"} =>
        \A i \in 1..Len(probe.attempts) :
            LET attempt == probe.attempts[i]
            IN  (Falsy(attempt.userId) \/ Falsy(attempt.ipAddress)) =>
                    /\ \A k \in 1..Len(probe.calls) : probe.calls[k] # attempt
                    /\ \A k \in 1..Len(db.login_attempts) :
                           db.login_attempts[k].timestamp # attempt.timestamp
                    /\ \A k \in 1..Len(db.risk_assessments) :
                           db.risk_assessments[k].timestamp # attempt.timestamp
                    /\ attempt.userId \notin DOMAIN db.user_profiles

\* C23: no score is ever classified under thresholds that are not strictly
\* increasing: a detector cannot be constructed with such thresholds.
C23_ThresholdsValidated ==
    probe.fn = "determineRiskLevel" =>
        LET thresholds == probe.thresholds
        IN  DOMAIN thresholds = {"low", "medium", "high", "critical"} =>
               /\ thresholds.low < thresholds.medium
               /\ thresholds.medium < thresholds.high
               /\ thresholds.high < thresholds.critical

\* C24: the configuration of a detector constructed with a partial
\* configuration holds the given value of every setting and of every
\* riskThresholds entry that is given and the default of every other one,
\* as createConfig's result does.
C24_PartialConfigKeepsDefaults ==
    "arg" \in DOMAIN probe =>
        LET arg == probe.arg
        IN  /\ \A k \in DOMAIN defaultConfig \ {"riskThresholds"} :
                   config[k] = IF k \in DOMAIN arg THEN arg[k] ELSE defaultConfig[k]
            /\ \A t \in DOMAIN defaultConfig.riskThresholds :
                   /\ t \in DOMAIN config.riskThresholds
                   /\ config.riskThresholds[t] =
                         IF "riskThresholds" \in DOMAIN arg /\ t \in DOMAIN arg.riskThresholds
                         THEN arg.riskThresholds[t]
                         ELSE defaultConfig.riskThresholds[t]
            /\ config = createConfig(arg)

\* C25: analyzeMultiple returns one assessment per attempt, in the order of
\* the attempts, the i-th being what analyzeLogin returned for the i-th
\* attempt when the attempts were analysed one by one; the profiles end the
\* same.
C25_BatchIsOneByOne ==
    probe.fn = "analyzeMultiple" =>
        /\ Len(probe.results) = Len(probe.attempts)
        /\ \A i \in 1..Len(probe.results) :
               /\ probe.attempts[i] = returned[i].attempt
               /\ probe.results[i] = returned[i].assessment
        /\ probe.userProfiles = userProfiles

\* A batch of two attempts of one user from New York, a failure and then a
\* success: the second assessment differs from the first.
C25_Witness ==
    /\ probe.fn = "analyzeMultiple"
    /\ Len(probe.results) = 2
    /\ probe.attempts[1].userId = probe.attempts[2].userId
    /\ probe.attempts[1].ipAddress = IpNewYork
    /\ probe.attempts[2].ipAddress = IpNewYork
    /\ ~probe.attempts[1].success /\ probe.attempts[2].success
    /\ probe.results[1].overallRisk = 8
    /\ probe.results[2].overallRisk = 0

\* C26: a request whose store call failed is answered with an error and has
\* no assessment, and none was stored if the failure came before the
\* profile was loaded; an assessment of a user who has a stored profile is
\* never made from an empty profile.
C26_LoadFailureSurfaced ==
    \A c \in Clients :
        /\ requests[c].pc = "rejected" =>
               /\ requests[c].status = 500
               /\ "result" \notin DOMAIN requests[c]
               /\ requests[c].at \notin {"saveRiskAssessment", "saveUserProfile"} =>
                      \A k \in 1..Len(db.risk_assessments) :
                          db.risk_assessments[k].timestamp # requests[c].attempt.timestamp
        /\ ( /\ "result" \in DOMAIN requests[c]
             /\ \E j \in Calls : Prior[j].userId = requests[c].attempt.userId )
           => /\ Len(requests[c].result.profile.loginHistory) > 1
              /\ Len(requests[c].result.profile.typicalLocations) > 0

\* alice has a stored profile; the load of her next request fails at its
\* last query and the request is answered 500, nothing stored but the
\* attempt.
C26_Witness ==
    /\ Len(returned) = 1
    /\ requests["c1"].pc = "rejected"
    /\ requests["c1"].attempt.userId = "alice"
    /\ requests["c1"].at = "getUserFailedAttempts"
    /\ requests["c1"].status = 500
    /\ Len(db.login_attempts) = 2
    /\ Len(db.risk_assessments) = 1

\* C27: an attempt of a user with earlier attempts, from a resolved place
\* that is not among the typical locations, gets locationChange = 40 and
\* the place is appended; every other attempt gets locationChange = 0 and
\* leaves typicalLocations as they were.
C27_LocationChangeCases ==
    \A j \in Calls :
        LET attempt == returned[j].attempt
            before == ProfileBefore(j).typicalLocations
            after == returned[j].profile.typicalLocations
            newPlace == /\ Earlier(j) # {}
                        /\ Resolves(attempt)
                        /\ \A i \in 1..Len(before) : ~SameCity(before[i], LocationOf(attempt))
        IN  IF newPlace
            THEN /\ returned[j].assessment.factors.locationChange = Num(40)
                 /\ after = Append(before, LocationOf(attempt))
            ELSE /\ returned[j].assessment.factors.locationChange = Num(0)
                 /\ after = before

\* C28: the elapsed time used for the required travel speed is the exact
\* absolute difference of the two timestamps in hours (30 minutes are 0.5
\* h), and the speed is infinite only when the two timestamps are equal.
C28_ExactElapsedHours ==
    probe.fn = "calculateTravelSpeed" =>
        LET elapsed == Abs(probe.previous.timestamp - probe.current.timestamp)
        IN  /\ probe.timeDiff = Norm(elapsed, 3600000)
            /\ IsInf(probe.requiredSpeed) <=> elapsed = 0

\* The distance in km between the places of two attempts that both resolve.
Km(a, b) ==
    calculateDistance(LocationOf(a).latitude, LocationOf(a).longitude,
                      LocationOf(b).latitude, LocationOf(b).longitude).n

\* The whole hours between two attempts, as the engine counts them.
HoursBetween(a, b) == Abs(a.timestamp - b.timestamp) \div 3600000

\* C29: with a lastSuccessfulLogin in another city and a required speed s,
\* impossibleTravel is min(100, 60 + (s/maxTravelSpeed - 1) * 40) when
\* s > maxTravelSpeed, 30 when 0.7 * maxTravelSpeed < s <= maxTravelSpeed and
\* 0 otherwise; without a lastSuccessfulLogin, with an address that has no
\* location, or in the same city, it is 0.  s is km / h, infinite for h = 0.
C29_ImpossibleTravelPiecewise ==
    \A j \in Calls :
        LET attempt == returned[j].attempt
            last == returned[j].profile.lastSuccessfulLogin
            max == config.maxTravelSpeed
            value == returned[j].assessment.factors.impossibleTravel
        IN  IF last = <<>> \/ ~Resolves(attempt) THEN value = Num(0)
            ELSE IF ~Resolves(last[1]) \/ SamePlace(attempt, last[1]) THEN value = Num(0)
            ELSE LET km == Km(last[1], attempt)
                     h == HoursBetween(last[1], attempt)
                 IN  IF h = 0 THEN value = Num(100)
                     ELSE IF km > max * h
                     THEN value = (IF 40 * km >= 80 * h * max THEN Num(100)
                                   ELSE Norm(20 * h * max + 40 * km, h * max))
                     ELSE IF 10 * km > 7 * max * h THEN value = Num(30)
                     ELSE value = Num(0)

\* A failed attempt from Tokyo thirteen hours after a success in New York:
\* 10852 km at 834 km/h, in the fast band of the default configuration.
C29_Witness ==
    /\ Len(returned) = 2
    /\ config.maxTravelSpeed = 900
    /\ returned[1].attempt.success /\ returned[1].attempt.ipAddress = IpNewYork
    /\ ~returned[2].attempt.success /\ returned[2].attempt.ipAddress = IpTokyo
    /\ returned[2].attempt.timestamp - returned[1].attempt.timestamp = 13 * 3600000
    /\ returned[2].assessment.factors.impossibleTravel = Num(30)

\* C30: a failed attempt in failedAttempts is counted for the brute-force
\* factor exactly when its timestamp is at most bruteForceWindow minutes
\* away from the current attempt's, before or after: with a window of 30 a
\* failure 30 minutes 30 seconds earlier is not counted.
C30_WindowIsExact ==
    \A j \in Calls :
        LET failedAttempts == returned[j].profile.failedAttempts
            currentTime == returned[j].attempt.timestamp
        IN  returned[j].failureCount =
                Cardinality({i \in 1..Len(failedAttempts) :
                                Abs(failedAttempts[i].timestamp - currentTime)
                                    <= config.bruteForceWindow * 60000})

\* C31: with c failures in the window and T = bruteForceThreshold, bruteForce
\* is 0 for c < 0.7 * T, 40 for 0.7 * T <= c < T and
\* min(100, 70 + (c/T - 1) * 30) for c >= T: it never decreases as c grows
\* and is 100 exactly from c = 2 * T on.
C31_BruteForcePiecewise ==
    \A j \in Calls :
        LET c == returned[j].failureCount
            T == config.bruteForceThreshold
            value == returned[j].assessment.factors.bruteForce
        IN  /\ value = (IF 10 * c < 7 * T THEN Num(0)
                        ELSE IF c < T THEN Num(40)
                        ELSE IF 40 * T + 30 * c >= 100 * T THEN Num(100)
                        ELSE Norm(40 * T + 30 * c, T))
            /\ value = Num(100) <=> c >= 2 * T
            /\ \A i \in Calls :
                   returned[i].failureCount <= c =>
                       Ge(value, returned[i].assessment.factors.bruteForce)

\* Defaults: ten failures a minute apart are assessed 0, 0, 0, 40, 70, ...
\* and the tenth 100.
C31_Witness ==
    /\ config = defaultConfig
    /\ Len(returned) = 10
    /\ \A j \in 1..10 : returned[j].failureCount = j
    /\ returned[3].assessment.factors.bruteForce = Num(0)
    /\ returned[4].assessment.factors.bruteForce = Num(40)
    /\ returned[5].assessment.factors.bruteForce = Num(70)
    /\ returned[9].assessment.factors.bruteForce = Num(94)
    /\ returned[10].assessment.factors.bruteForce = Num(100)

\* The hours at which the attempts of a set of calls were made.
HoursOf(calls) == {getHourOfDay(returned[i].attempt.timestamp) : i \in calls}

\* The hours that hold at least a tenth of the attempts of a set of calls,
\* or every hour of the set when no hour holds a tenth.
HoursByShare(calls) ==
    LET share == {h \in HoursOf(calls) :
                     10 * Cardinality({i \in calls :
                              getHourOfDay(returned[i].attempt.timestamp) = h})
                         >= Cardinality(calls)}
    IN  IF share = {} THEN HoursOf(calls) ELSE share

RuleOrder ==
    <<Block, TravelAlert, RequireMfa, Lockout, BruteAlert, NewLocation, TimeVerify, Monitor>>

\* The condition under which a rule's recommendation is due.
Due(recommendation, assessment) ==
    CASE recommendation = Block -> assessment.riskLevel \in {"high", "critical"}
      [] recommendation \in {TravelAlert, RequireMfa} ->
             Gt(assessment.factors.impossibleTravel, Num(50))
      [] recommendation \in {Lockout, BruteAlert} ->
             Gt(assessment.factors.bruteForce, Num(50))
      [] recommendation = NewLocation -> Gt(assessment.factors.locationChange, Num(30))
      [] recommendation = TimeVerify -> Gt(assessment.factors.unusualTime, Num(30))
      [] recommendation = Monitor -> assessment.riskLevel = "medium"

OfUser(attempts, userId) == SelectSeq(attempts, LAMBDA a : a.userId = userId)

LastSuccessThrough(user, j) ==
    LET successes == {i \in 1..j : /\ returned[i].attempt.userId = user
                                   /\ returned[i].attempt.success}
    IN  IF successes = {} THEN <<>>
        ELSE <<returned[CHOOSE i \in successes : \A k \in successes : k <= i].attempt>>

\* C35: a profile has no lastSuccessfulLogin exactly when no successful
\* attempt of its user was analysed; otherwise lastSuccessfulLogin is the
\* successful attempt analysed last; analysing a failed attempt leaves it as
\* it was.
C35_LastSuccessfulLogin ==
    /\ \A u \in DOMAIN userProfiles :
           userProfiles[u].lastSuccessfulLogin = LastSuccessThrough(u, Len(returned))
    /\ \A j \in Calls :
           /\ returned[j].profile.lastSuccessfulLogin
                  = LastSuccessThrough(returned[j].attempt.userId, j)
           /\ ~returned[j].attempt.success =>
                  returned[j].profile.lastSuccessfulLogin
                      = ProfileBefore(j).lastSuccessfulLogin

\* A success, then a failure from another address, then an earlier-dated
\* success: the profile holds the first success after the second call and
\* the third attempt after the third.
C35_Witness ==
    /\ Len(returned) = 3
    /\ \A j \in 1..3 : returned[j].attempt.userId = "alice"
    /\ returned[1].attempt.success
    /\ ~returned[2].attempt.success
    /\ returned[2].attempt.ipAddress # returned[1].attempt.ipAddress
    /\ returned[3].attempt.success
    /\ returned[3].attempt.timestamp < returned[1].attempt.timestamp
    /\ returned[2].profile.lastSuccessfulLogin = <<returned[1].attempt>>
    /\ userProfiles["alice"].lastSuccessfulLogin = <<returned[3].attempt>>

Cities(locations) ==
    {<<locations[i].country, locations[i].city>> : i \in 1..Len(locations)}

\* C38: after every analysis typicalLocations holds exactly the distinct
\* (country, city) pairs that the addresses of the user's analysed attempts,
\* failed ones included, resolve to; so an attempt from a place an earlier
\* attempt of the user came from, failed or not, gets locationChange = 0.
C38_TypicalLocationsAreAllSeen ==
    \A j \in Calls :
        LET seen == {i \in Earlier(j) \cup {j} : Resolves(returned[i].attempt)}
            typical == returned[j].profile.typicalLocations
        IN  /\ Cities(typical)
                   = {<<LocationOf(returned[i].attempt).country,
                        LocationOf(returned[i].attempt).city>> : i \in seen}
            /\ Cardinality(Cities(typical)) = Len(typical)
            /\ (\E i \in Earlier(j) : SamePlace(returned[i].attempt, returned[j].attempt))
                   => returned[j].assessment.factors.locationChange = Num(0)
            /\ j = Len(returned) =>
                   userProfiles[returned[j].attempt.userId].typicalLocations = typical

\* A login from New York, a failed attempt from Tokyo, then a login from
\* Tokyo: Tokyo is typical since the failure and the login scores 0.
C38_Witness ==
    /\ Len(returned) = 3
    /\ returned[1].attempt.success /\ returned[1].attempt.ipAddress = IpNewYork
    /\ ~returned[2].attempt.success /\ returned[2].attempt.ipAddress = IpTokyo
    /\ returned[3].attempt.success /\ returned[3].attempt.ipAddress = IpTokyo
    /\ returned[2].assessment.factors.locationChange = Num(40)
    /\ returned[2].profile.typicalLocations = <<NewYork, Tokyo>>
    /\ returned[3].assessment.factors.locationChange = Num(0)

====
